---- MODULE Spec2Model ----
(***************************************************************************)
(* Gesture tracking and zone-interaction engine of NEU_LP_React.           *)
(*                                                                         *)
(* Units.  Pixel coordinates and milliseconds are integers.  Angles are    *)
(* whole degrees (calculateAngle truncated toward the x axis, exact on     *)
(* the axes and diagonals).  cwAccum is kept in HALF degrees, because the  *)
(* counter-rotation decay subtracts |diff| * 0.5.  rotAngle is kept in     *)
(* units of one per-tick increment.  A JavaScript null is Null == << >>    *)
(* and a present value v is << v >>.  A Point's missing depth is 0.        *)
(***************************************************************************)
EXTENDS Integers, Sequences, FiniteSets, TLC

\* ------------------------------------------------------------------------
\* Bounds of the model
\* ------------------------------------------------------------------------
\* ticks stop once performance.now() has reached MaxNow
MaxNow == 4100
\* a runtime holds at most MaxGifLoads unfinished GIF loads
MaxGifLoads == 1
\* the same for the gesture specification and for the grace specification
MaxGestureNow == 3600
MaxGraceNow == 1400
\* the same for the tracking specification
MaxTrackNow == 80
\* the clock of the bridge specification stops here, and at most this many
\* bridge images wait for their onload
MaxBridgeNow == 120
MaxImages == 1
MaxFrameNow == 80
MaxDepthNow == 60
MaxSmooth == 8
MaxHoldNow == 160
MaxCreepNow == 2000
MaxOrbitNow == 1000

\* ------------------------------------------------------------------------
\* Program constants
\* ------------------------------------------------------------------------
ROTATE_TARGET_DEG == 90
STILL_EPS_DEG == 2
\* LEAVE_MARGIN_RATIO = 0.18, in percent
LEAVE_MARGIN_RATIO == 18
MIN_LEAVE_MARGIN_PX == 8
LEAVE_GRACE_FRAMES == 10
SPIN_GRACE_MS == 2000
ROT_SPEED_DEG_PER_SEC == 45
\* DEFAULT_SETTINGS.depthTriggerMm
depthTriggerMm == 1800
\* SMOOTH_ALPHA = 0.35 and the fingertip's alpha 0.5, in percent
SMOOTH_ALPHA == 35
TIP_ALPHA == 50
HOLD_FRAMES == 6
\* the canvas of DEFAULT_SETTINGS: baseShortSide 720 at aspect 4:3
CanvasW == 960
CanvasH == 720
\* raw tracking coordinates are given in eighths of the source frame
RawDen == 8

Null == << >>
Some(v) == << v >>

Abs(n) == IF n < 0 THEN -n ELSE n
Max(a, b) == IF a >= b THEN a ELSE b
Min(a, b) == IF a <= b THEN a ELSE b

\* ------------------------------------------------------------------------
\* utils.ts
\* ------------------------------------------------------------------------
\* sin(d degrees) * 10000 for d = 0..90, SinTab[d + 1]
SinTab ==
  << 0, 175, 349, 523, 698, 872, 1045, 1219, 1392, 1564, 1736, 1908, 2079,
     2250, 2419, 2588, 2756, 2924, 3090, 3256, 3420, 3584, 3746, 3907, 4067,
     4226, 4384, 4540, 4695, 4848, 5000, 5150, 5299, 5446, 5592, 5736, 5878,
     6018, 6157, 6293, 6428, 6561, 6691, 6820, 6947, 7071, 7193, 7314, 7431,
     7547, 7660, 7771, 7880, 7986, 8090, 8192, 8290, 8387, 8480, 8572, 8660,
     8746, 8829, 8910, 8988, 9063, 9135, 9205, 9272, 9336, 9397, 9455, 9511,
     9563, 9613, 9659, 9703, 9744, 9781, 9816, 9848, 9877, 9903, 9925, 9945,
     9962, 9976, 9986, 9994, 9998, 10000 >>

\* the angle of (ax, ay), ax >= 0, ay >= 0, not both 0, within the first
\* quadrant: the largest whole degree d whose direction the vector has reached
QuadrantDeg(ay, ax) ==
  CHOOSE d \in 0..90 :
    /\ ay * SinTab[91 - d] >= ax * SinTab[d + 1]
    /\ \A e \in (d + 1)..90 : ay * SinTab[91 - e] < ax * SinTab[e + 1]

\* Math.atan2(dy, dx) * (180 / Math.PI), in whole degrees within -180..180
Atan2Deg(dy, dx) ==
  IF dx = 0 /\ dy = 0 THEN 0
  ELSE LET q == QuadrantDeg(Abs(dy), Abs(dx))
       IN  IF dx >= 0 /\ dy >= 0 THEN q
           ELSE IF dx < 0 /\ dy >= 0 THEN 180 - q
           ELSE IF dx < 0 THEN q - 180
           ELSE 0 - q

\* the offsets (dy, dx) between the fingertips and the zone centres of the
\* model, and their angles, computed once
Offsets ==
  { <<0, 0>>, <<1, 40>>, <<1, 28>>, <<50, 0>>, <<-50, 0>>, <<0, -50>>,
    <<0, 59>>, <<0, 60>>, <<0, 38>>, <<0, 39>>,
    <<0, 280>>, <<1, 320>>, <<1, 308>>, <<50, 280>>, <<-50, 280>>,
    <<0, 230>>, <<0, 339>>, <<0, 340>>, <<0, 318>>, <<0, 319>>,
    <<0, -280>>, <<0, -242>>, <<0, -241>>, <<43, 43>>, <<60, 0>> }

AngTab == [v \in Offsets |-> Atan2Deg(v[1], v[2])]

calculateAngle(cx, cy, px, py) ==
  IF <<py - cy, px - cx>> \in Offsets
  THEN AngTab[<<py - cy, px - cx>>]
  ELSE Atan2Deg(py - cy, px - cx)

RECURSIVE WhileAbove(_)
WhileAbove(d) == IF d > 180 THEN WhileAbove(d - 360) ELSE d

RECURSIVE WhileBelow(_)
WhileBelow(d) == IF d < -180 THEN WhileBelow(d + 360) ELSE d

\* angleDiff without the two loops
angleDiffNoWrap(a, b) == b - a

angleDiff(a, b) == WhileBelow(WhileAbove(b - a))


\* a mix that keeps the whole of prev: prev + curr * alpha
MixSum(prev, curr, alpha) == (prev * 100 + curr * alpha) \div 100

\* prev * (1 - alpha) + curr * alpha on whole pixels, alpha in percent
Mix(prev, curr, alpha) == (prev * (100 - alpha) + curr * alpha) \div 100

smoothPoint(prev, curr, alpha) ==
  IF prev = Null THEN curr
  ELSE [ x |-> Mix(prev[1].x, curr.x, alpha),
         y |-> Mix(prev[1].y, curr.y, alpha),
         depth |-> curr.depth ]

\* smoothLandmarks on the landmark list, of which the model keeps the
\* INDEX_TIP entry; the list lengths always agree
smoothLandmarks(prev, curr, alpha) ==
  IF prev = Null THEN curr
  ELSE [ x |-> Mix(prev[1].x, curr.x, alpha),
         y |-> Mix(prev[1].y, curr.y, alpha),
         depth |-> curr.depth ]

\* normalizeUrl: GitHub blob URLs are rewritten to raw content, every other
\* URL is returned as it is
normalizeUrl(url) ==
  IF url = "https://github.com/u/r/blob/m/one.mp3"
  THEN "https://raw.githubusercontent.com/u/r/m/one.mp3"
  ELSE url

\* ------------------------------------------------------------------------
\* State
\* ------------------------------------------------------------------------
VARIABLES
  circles,      \* CanvasLayer prop circles: sequence of CircleConfig
  settings,     \* CanvasLayer prop settings (the fields the engine reads)
  runtimeMap,   \* runtimeRef.current: zone id -> CircleRuntime
  tip,          \* tipRef.current (prevTipRef): Null or Some(Point)
  depthMm,      \* wsFeed.depthMm as read by the render tick
  now,          \* the last performance.now() read by the render loop
  calls,        \* zone id -> media calls issued by the last physics tick
  lastOp,       \* the operation that ran last
  hist,         \* zone id -> history of the pointer as seen by the zone
  ht,           \* the refs of useHandTracking other than prevTipRef
  inflight,     \* the hands.send() calls that have not settled, in order
  pick,         \* the candidates and the choice of the last snapshot update
  ws,           \* useWebSocketFeed: the socket, its refs and its state
  wsFeed,       \* the object useWebSocketFeed returned to the last render
  cam,          \* the camera effect: its initCamera chain and cameraError
  calc          \* the last application of a helper function on its own

trackVars == << ht, inflight, pick >>

linkVars == << ws, wsFeed, cam >>

vars ==
  << circles, settings, runtimeMap, tip, depthMm, now, calls, lastOp, hist,
     ht, inflight, pick, ws, wsFeed, cam, calc >>

\* ------------------------------------------------------------------------
\* CanvasLayer.tsx: runtime creation and the media / runtime sync effect
\* ------------------------------------------------------------------------
\* the record stored by runtimeRef.current.set(c.id, {...}); gifLoads counts
\* the gifler(...).then(...) continuations that hold this runtime object
NewRuntime ==
  [ isFilled |-> FALSE, wasFilled |-> FALSE, graceLeft |-> 0,
    lastAngle |-> Null, cwAccum |-> 0, rotAngle |-> 0, lastCWTime |-> 0,
    isHandInside |-> FALSE, audioEl |-> Null, gifAnim |-> Null,
    gifLoads |-> 0 ]

Ids(cs) == { cs[i].id : i \in 1..Len(cs) }

\* the interaction state of a zone's runtime, as against its media
Interaction(rt) ==
  [ isHandInside |-> rt.isHandInside, graceLeft |-> rt.graceLeft,
    lastAngle |-> rt.lastAngle, cwAccum |-> rt.cwAccum,
    lastCWTime |-> rt.lastCWTime, isFilled |-> rt.isFilled,
    wasFilled |-> rt.wasFilled, rotAngle |-> rt.rotAngle ]

\* a sync effect that stores a new runtime for every circle, known or not
SyncOneFresh(c, rm) ==
  LET normAudio == IF c.audioPath # "" THEN normalizeUrl(c.audioPath) ELSE ""
  IN  [NewRuntime EXCEPT
         !.gifLoads = IF c.imgPath # "" THEN 1 ELSE 0,
         !.audioEl = IF normAudio # ""
                     THEN Some([src |-> normAudio, paused |-> TRUE])
                     ELSE Null]

\* the body of circles.forEach in the sync effect, for one circle
SyncOne(c, rm) ==
  LET rt0 == IF c.id \in DOMAIN rm THEN rm[c.id] ELSE NewRuntime
      normImg == IF c.imgPath # "" THEN normalizeUrl(c.imgPath) ELSE ""
      normAudio == IF c.audioPath # "" THEN normalizeUrl(c.audioPath) ELSE ""
      \* a GIF keeps imgEl null, so the loader is started on every sync;
      \* a running animation is stopped and stays attached until then() runs
      rt1 == IF normImg # ""
             THEN [rt0 EXCEPT !.gifLoads = @ + 1,
                              !.gifAnim = IF @ = Null THEN Null
                                          ELSE Some([playing |-> FALSE])]
             ELSE [rt0 EXCEPT !.gifAnim = Null]
      rt2 == IF normAudio # "" /\
                (rt1.audioEl = Null \/ rt1.audioEl[1].src # normAudio)
             THEN [rt1 EXCEPT !.audioEl =
                     Some([src |-> normAudio, paused |-> TRUE])]
             ELSE IF normAudio = ""
             THEN [rt1 EXCEPT !.audioEl = Null]
             ELSE rt1
  IN  rt2

RECURSIVE SyncEach(_, _, _)
SyncEach(cs, i, rm) ==
  IF i > Len(cs) THEN rm
  ELSE LET rt == SyncOne(cs[i], rm)
           rm1 == [id \in DOMAIN rm \cup {cs[i].id} |->
                      IF id = cs[i].id THEN rt ELSE rm[id]]
       IN  SyncEach(cs, i + 1, rm1)

\* a cleanup that deletes nothing
PruneNothing(cs, rm) == rm

\* "Cleanup removed": every key that is not a current id is deleted
PruneRemoved(cs, rm) == [id \in DOMAIN rm \cap Ids(cs) |-> rm[id]]

\* what "Cleanup removed" does to the runtime it deletes: the audio element
\* is paused; the animation is not touched
CleanupRemoved(rt) ==
  [rt EXCEPT !.audioEl = IF @ = Null THEN Null
                         ELSE Some([@[1] EXCEPT !.paused = TRUE])]

\* the effect useEffect(() => {...}, [circles])
SyncRuntime(cs, rm) == PruneRemoved(cs, SyncEach(cs, 1, rm))


\* ------------------------------------------------------------------------
\* utils/physicsLogic.ts: updateCirclePhysics
\* ------------------------------------------------------------------------
\* "Determine effective depth: Tip specific > Global Center > 0"
EffectiveDepth(isProfessional, t, globalDepthMm) ==
  IF ~isProfessional THEN 0
  ELSE IF t # Null /\ t[1].depth > 0 THEN t[1].depth
  ELSE IF globalDepthMm # 0 THEN globalDepthMm
  ELSE 0

\* a margin of MIN_LEAVE_MARGIN_PX whatever the radius
Margin100Min(c) == 100 * MIN_LEAVE_MARGIN_PX

\* 100 * margin, margin = Math.max(MIN_LEAVE_MARGIN_PX, c.radius * 0.18)
Margin100(c) == Max(100 * MIN_LEAVE_MARGIN_PX, c.radius * LEAVE_MARGIN_RATIO)

\* dx*dx + dy*dy for the fingertip p and the centre of c
Dist2(c, p) == (p.x - c.x) * (p.x - c.x) + (p.y - c.y) * (p.y - c.y)

\* dist <= r for r given as 100 * r (both sides squared)
DistWithin(c, p, r100) == 10000 * Dist2(c, p) <= r100 * r100

\* VisualInside with dist < c.radius
VisualInsideStrict(c, rt, p) ==
  \/ 10000 * Dist2(c, p) < (100 * c.radius) * (100 * c.radius)
  \/ rt.isHandInside /\ DistWithin(c, p, 100 * c.radius + Margin100(c))

\* visualInside: inside the circle, or inside the hysteresis band when the
\* zone is already hand-inside
VisualInside(c, rt, p) ==
  \/ DistWithin(c, p, 100 * c.radius)
  \/ rt.isHandInside /\ DistWithin(c, p, 100 * c.radius + Margin100(c))

\* isActivated without the depth condition
IsActivatedNoDepth(c, rt, p, isProfessional, effectiveDepth) ==
  IF isProfessional
  THEN VisualInside(c, rt, p)
  ELSE IF VisualInside(c, rt, p) THEN TRUE
       ELSE rt.isHandInside /\ rt.graceLeft > 0

\* isActivated, lines 54-74
IsActivated(c, rt, p, isProfessional, effectiveDepth) ==
  IF isProfessional
  THEN IF effectiveDepth > 0
       THEN VisualInside(c, rt, p) /\ effectiveDepth < depthTriggerMm
       ELSE VisualInside(c, rt, p)
  ELSE IF VisualInside(c, rt, p) THEN TRUE
       ELSE rt.isHandInside /\ rt.graceLeft > 0

\* GraceAfter that restarts the counter one frame short
GraceAfterShort(c, rt, p, isProfessional) ==
  IF isProfessional THEN rt.graceLeft
  ELSE IF VisualInside(c, rt, p) THEN LEAVE_GRACE_FRAMES - 1
  ELSE IF rt.isHandInside /\ rt.graceLeft > 0 THEN rt.graceLeft - 1
  ELSE rt.graceLeft

\* graceLeft after lines 65-74
GraceAfter(c, rt, p, isProfessional) ==
  IF isProfessional THEN rt.graceLeft
  ELSE IF VisualInside(c, rt, p) THEN LEAVE_GRACE_FRAMES
  ELSE IF rt.isHandInside /\ rt.graceLeft > 0 THEN rt.graceLeft - 1
  ELSE rt.graceLeft

\* AccumAfter without the floor Math.max(0, ...)
AccumAfterNoFloor(rt, la, ang) ==
  IF la = Null THEN rt.cwAccum
  ELSE LET diff == angleDiff(la[1], ang)
       IN  IF Abs(diff) >= STILL_EPS_DEG
           THEN IF diff > 0 THEN rt.cwAccum + 2 * Abs(diff)
                ELSE rt.cwAccum - Abs(diff)
           ELSE rt.cwAccum

\* cwAccum (half degrees) after lines 83-93, la the last angle in use
AccumAfter(rt, la, ang) ==
  IF la = Null THEN rt.cwAccum
  ELSE LET diff == angleDiff(la[1], ang)
       IN  IF Abs(diff) >= STILL_EPS_DEG
           THEN IF diff > 0 THEN rt.cwAccum + 2 * Abs(diff)
                ELSE Max(0, rt.cwAccum - Abs(diff))
           ELSE rt.cwAccum

\* a stamp on every step of at least STILL_EPS_DEG, whatever its sense
CWTimeAfterAnyMove(rt, la, ang, nowv) ==
  IF la = Null THEN rt.lastCWTime
  ELSE LET diff == angleDiff(la[1], ang)
       IN  IF Abs(diff) >= STILL_EPS_DEG THEN nowv
           ELSE rt.lastCWTime

\* lastCWTime after lines 83-93
CWTimeAfter(rt, la, ang, nowv) ==
  IF la = Null THEN rt.lastCWTime
  ELSE LET diff == angleDiff(la[1], ang)
       IN  IF Abs(diff) >= STILL_EPS_DEG /\ diff > 0 THEN nowv
           ELSE rt.lastCWTime

cwReadyStrict(cwAccum) == cwAccum > 2 * ROTATE_TARGET_DEG

cwReady(cwAccum) == cwAccum >= 2 * ROTATE_TARGET_DEG
cwFreshStrict(nowv, lastCWTime) == (nowv - lastCWTime) < SPIN_GRACE_MS

cwFresh(nowv, lastCWTime) == (nowv - lastCWTime) <= SPIN_GRACE_MS

\* a reference angle that follows only the steps that count
LastAngleAfterMoved(la, ang) ==
  IF la # Null /\ Abs(angleDiff(la[1], ang)) < STILL_EPS_DEG THEN la
  ELSE Some(ang)

\* line 95: rt.lastAngle = ang, whatever the step was
LastAngleAfter(la, ang) == Some(ang)

\* a leave that keeps the accumulator and the reference angle
HandBranchLeaveKeeps(c, rt, p, isProfessional, effectiveDepth, nowv) ==
  LET act == IsActivated(c, rt, p, isProfessional, effectiveDepth)
      grace == GraceAfter(c, rt, p, isProfessional)
      la == IF ~rt.isHandInside /\ act THEN Null ELSE rt.lastAngle
      ang == calculateAngle(c.x, c.y, p.x, p.y)
      acc == AccumAfter(rt, la, ang)
      cwt == CWTimeAfter(rt, la, ang, nowv)
  IN  IF act
      THEN [rt EXCEPT !.graceLeft = grace, !.isHandInside = TRUE,
                      !.cwAccum = acc, !.lastCWTime = cwt,
                      !.lastAngle = LastAngleAfter(la, ang),
                      !.isFilled = cwReady(acc) /\ cwFresh(nowv, cwt)]
      ELSE [rt EXCEPT !.isHandInside = FALSE, !.isFilled = FALSE,
                      !.graceLeft = 0]

\* an entry that takes 0 degrees for the reference angle
HandBranchZeroRef(c, rt, p, isProfessional, effectiveDepth, nowv) ==
  LET act == IsActivated(c, rt, p, isProfessional, effectiveDepth)
      grace == GraceAfter(c, rt, p, isProfessional)
      la == IF ~rt.isHandInside /\ act THEN Some(0) ELSE rt.lastAngle
      ang == calculateAngle(c.x, c.y, p.x, p.y)
      acc == AccumAfter(rt, la, ang)
      cwt == CWTimeAfter(rt, la, ang, nowv)
  IN  IF act
      THEN [rt EXCEPT !.graceLeft = grace, !.isHandInside = TRUE,
                      !.cwAccum = acc, !.lastCWTime = cwt,
                      !.lastAngle = LastAngleAfter(la, ang),
                      !.isFilled = cwReady(acc) /\ cwFresh(nowv, cwt)]
      ELSE [rt EXCEPT !.isHandInside = FALSE, !.isFilled = FALSE,
                      !.cwAccum = 0, !.lastAngle = Null, !.graceLeft = 0]

\* lines 41-105: a fingertip is present
HandBranch(c, rt, p, isProfessional, effectiveDepth, nowv) ==
  LET act == IsActivated(c, rt, p, isProfessional, effectiveDepth)
      grace == GraceAfter(c, rt, p, isProfessional)
      \* lines 76-79: the reference angle is cleared on entry
      la == IF ~rt.isHandInside /\ act THEN Null ELSE rt.lastAngle
      ang == calculateAngle(c.x, c.y, p.x, p.y)
      acc == AccumAfter(rt, la, ang)
      cwt == CWTimeAfter(rt, la, ang, nowv)
  IN  IF act
      THEN [rt EXCEPT !.graceLeft = grace, !.isHandInside = TRUE,
                      !.cwAccum = acc, !.lastCWTime = cwt,
                      !.lastAngle = LastAngleAfter(la, ang),
                      !.isFilled = cwReady(acc) /\ cwFresh(nowv, cwt)]
      ELSE [rt EXCEPT !.isHandInside = FALSE, !.isFilled = FALSE,
                      !.cwAccum = 0, !.lastAngle = Null, !.graceLeft = 0]

\* a no-hand branch that never resets the zone
NoHandBranchKeep(rt, nowv) ==
  [rt EXCEPT !.isFilled = cwReady(rt.cwAccum) /\ cwFresh(nowv, rt.lastCWTime)]

\* lines 106-117: no hand detected
NoHandBranch(rt, nowv) ==
  LET fresh == cwFresh(nowv, rt.lastCWTime)
      rt1 == [rt EXCEPT !.isFilled = cwReady(rt.cwAccum) /\ fresh]
  IN  IF ~fresh
      THEN [rt1 EXCEPT !.isHandInside = FALSE, !.lastAngle = Null,
                       !.cwAccum = 0,
                       !.gifAnim = IF @ = Null THEN Null
                                   ELSE Some([playing |-> FALSE])]
      ELSE rt1

\* the calls of line 115 and lines 120-132, rt the runtime after the branch
MediaCalls(rt, hadTip, nowv, lastCWTimeBefore) ==
  (IF ~hadTip /\ ~cwFresh(nowv, lastCWTimeBefore) /\ rt.gifAnim # Null
   THEN {"gif.pause.stale"} ELSE {})
  \cup
  (IF ~rt.wasFilled /\ rt.isFilled
   THEN (IF rt.audioEl # Null THEN {"audio.play"} ELSE {}) \cup
        (IF rt.gifAnim # Null THEN {"gif.play"} ELSE {})
   ELSE IF rt.wasFilled /\ ~rt.isFilled
   THEN (IF rt.audioEl # Null THEN {"audio.pause"} ELSE {}) \cup
        (IF rt.gifAnim # Null THEN {"gif.pause"} ELSE {})
   ELSE {})

\* one full turn of rotAngle in per-tick increments:
\* 2 * PI / (ROT_SPEED_DEG_PER_SEC * PI / 180 * 0.016)
RotPeriod == (360 * 1000) \div (ROT_SPEED_DEG_PER_SEC * 16)

\* EdgeBranch without "rt.wasFilled = rt.isFilled"
EdgeBranchStale(rt) ==
  LET rising == ~rt.wasFilled /\ rt.isFilled
      falling == rt.wasFilled /\ ~rt.isFilled
      rt1 == IF rising
             THEN [rt EXCEPT
                     !.audioEl = IF @ = Null THEN Null
                                 ELSE Some([@[1] EXCEPT !.paused = FALSE]),
                     !.gifAnim = IF @ = Null THEN Null
                                 ELSE Some([playing |-> TRUE])]
             ELSE IF falling
             THEN [rt EXCEPT
                     !.audioEl = IF @ = Null THEN Null
                                 ELSE Some([@[1] EXCEPT !.paused = TRUE]),
                     !.gifAnim = IF @ = Null THEN Null
                                 ELSE Some([playing |-> FALSE])]
             ELSE rt
  IN  [rt1 EXCEPT !.rotAngle = IF rt1.isFilled THEN (@ + 1) % RotPeriod ELSE @]

\* lines 119-137: state transitions, visual spin, wasFilled
EdgeBranch(rt) ==
  LET rising == ~rt.wasFilled /\ rt.isFilled
      falling == rt.wasFilled /\ ~rt.isFilled
      rt1 == IF rising
             THEN [rt EXCEPT
                     !.audioEl = IF @ = Null THEN Null
                                 ELSE Some([@[1] EXCEPT !.paused = FALSE]),
                     !.gifAnim = IF @ = Null THEN Null
                                 ELSE Some([playing |-> TRUE])]
             ELSE IF falling
             THEN [rt EXCEPT
                     !.audioEl = IF @ = Null THEN Null
                                 ELSE Some([@[1] EXCEPT !.paused = TRUE]),
                     !.gifAnim = IF @ = Null THEN Null
                                 ELSE Some([playing |-> FALSE])]
             ELSE rt
  IN  [rt1 EXCEPT !.rotAngle = IF rt1.isFilled THEN (@ + 1) % RotPeriod ELSE @,
                  !.wasFilled = rt1.isFilled]

\* a body that leaves the accumulator alone on a tick held by the grace
ZoneTickGraceStill(c, rt, t, isProfessional, effectiveDepth, nowv) ==
  LET rtH == IF t # Null
             THEN HandBranch(c, rt, t[1], isProfessional, effectiveDepth, nowv)
             ELSE NoHandBranch(rt, nowv)
      rtB == IF t # Null /\ ~isProfessional /\ ~VisualInside(c, rt, t[1])
             THEN [rtH EXCEPT !.cwAccum = rt.cwAccum, !.isFilled = rt.isFilled]
             ELSE rtH
  IN  [ rt |-> EdgeBranch(rtB),
        calls |-> MediaCalls(rtB, t # Null, nowv, rt.lastCWTime) ]

\* the body of circles.forEach(c => {...}) for a zone that has a runtime
ZoneTick(c, rt, t, isProfessional, effectiveDepth, nowv) ==
  LET rtB == IF t # Null
             THEN HandBranch(c, rt, t[1], isProfessional, effectiveDepth, nowv)
             ELSE NoHandBranch(rt, nowv)
  IN  [ rt |-> EdgeBranch(rtB),
        calls |-> MediaCalls(rtB, t # Null, nowv, rt.lastCWTime) ]

\* updateCirclePhysics without the early return of line 22
updateCirclePhysicsAlways(cs, rm, t, s, globalDepthMm, nowv) ==
  LET isProfessional == s.cameraType = "professional"
      effectiveDepth == EffectiveDepth(isProfessional, t, globalDepthMm)
  IN  [id \in DOMAIN rm |->
         IF id \in Ids(cs)
         THEN LET c == CHOOSE c \in {cs[i] : i \in 1..Len(cs)} : c.id = id
              IN  ZoneTick(c, rm[id], t, isProfessional,
                           effectiveDepth, nowv).rt
         ELSE rm[id]]

\* updateCirclePhysics(circles, runtimeMap, tip, settings, globalDepthMm, now)
\* the zones are independent of each other, so the forEach is a map
updateCirclePhysics(cs, rm, t, s, globalDepthMm, nowv) ==
  IF s.isMappingEdit THEN rm
  ELSE LET isProfessional == s.cameraType = "professional"
           effectiveDepth == EffectiveDepth(isProfessional, t, globalDepthMm)
       IN  [id \in DOMAIN rm |->
              IF id \in Ids(cs)
              THEN LET c == CHOOSE c \in {cs[i] : i \in 1..Len(cs)} : c.id = id
                   IN  ZoneTick(c, rm[id], t, isProfessional,
                                effectiveDepth, nowv).rt
              ELSE rm[id]]

\* the media calls updateCirclePhysics issues, per zone id
PhysicsCalls(cs, rm, t, s, globalDepthMm, nowv) ==
  IF s.isMappingEdit THEN [id \in DOMAIN rm |-> {}]
  ELSE LET isProfessional == s.cameraType = "professional"
           effectiveDepth == EffectiveDepth(isProfessional, t, globalDepthMm)
       IN  [id \in DOMAIN rm |->
              IF id \in Ids(cs)
              THEN LET c == CHOOSE c \in {cs[i] : i \in 1..Len(cs)} : c.id = id
                   IN  ZoneTick(c, rm[id], t, isProfessional,
                                effectiveDepth, nowv).calls
              ELSE {}]


\* ------------------------------------------------------------------------
\* hooks/useHandTracking: transformCoords
\* ------------------------------------------------------------------------
\* the settings the engine reads, as in DEFAULT_SETTINGS (mirrorView on,
\* scale 1.0 in tenths, analysisFPS 30)
DEFAULT_SETTINGS ==
  [ cameraType |-> "standard", isMappingEdit |-> FALSE, rotationDeg |-> 0,
    mirrorView |-> TRUE, scale |-> 10, analysisFPS |-> 30, deviceId |-> "",
    wsUrl |-> "ws://localhost:8765" ]

\* Math.cos and Math.sin of the four rotations the panel offers
Cos(deg) == IF deg = 0 THEN 1 ELSE IF deg = 180 THEN -1 ELSE 0
Sin(deg) == IF deg = 90 THEN 1 ELSE IF deg = 270 THEN -1 ELSE 0

\* transformCoords that mirrors before it rotates
transformCoordsMirrorFirst(raw, stats, s) ==
  LET cw == CanvasW
      ch == CanvasH
      vw == stats.width
      vh == stats.height
      wide == cw * vh >= ch * vw
      projectedW == ((IF wide THEN cw ELSE (ch * vw) \div vh) * s.scale) \div 10
      projectedH == ((IF wide THEN (cw * vh) \div vw ELSE ch) * s.scale) \div 10
      offsetX == (cw - projectedW) \div 2
      offsetY == (ch - projectedH) \div 2
      px0 == (raw.x * projectedW) \div RawDen + offsetX
      py0 == (raw.y * projectedH) \div RawDen + offsetY
      pxm == IF s.mirrorView THEN cw - px0 ELSE px0
      dx == pxm - cw \div 2
      dy == py0 - ch \div 2
  IN  [x |-> IF s.rotationDeg # 0
             THEN dx * Cos(s.rotationDeg) - dy * Sin(s.rotationDeg) + cw \div 2
             ELSE pxm,
       y |-> IF s.rotationDeg # 0
             THEN dx * Sin(s.rotationDeg) + dy * Cos(s.rotationDeg) + ch \div 2
             ELSE py0]

\* transformCoords(rawX, rawY): raw is in 1/RawDen of the source frame, the
\* result is in canvas pixels (the normalised result times the canvas size)
transformCoords(raw, stats, s) ==
  LET cw == CanvasW
      ch == CanvasH
      vw == stats.width
      vh == stats.height
      \* baseScale = max(cw / vw, ch / vh), applied to vw and to vh
      wide == cw * vh >= ch * vw
      projectedW == ((IF wide THEN cw ELSE (ch * vw) \div vh) * s.scale) \div 10
      projectedH == ((IF wide THEN (cw * vh) \div vw ELSE ch) * s.scale) \div 10
      offsetX == (cw - projectedW) \div 2
      offsetY == (ch - projectedH) \div 2
      px0 == (raw.x * projectedW) \div RawDen + offsetX
      py0 == (raw.y * projectedH) \div RawDen + offsetY
      cx == cw \div 2
      cy == ch \div 2
      dx == px0 - cx
      dy == py0 - cy
      px1 == IF s.rotationDeg # 0
             THEN dx * Cos(s.rotationDeg) - dy * Sin(s.rotationDeg) + cx
             ELSE px0
      py1 == IF s.rotationDeg # 0
             THEN dx * Sin(s.rotationDeg) + dy * Cos(s.rotationDeg) + cy
             ELSE py0
      px2 == IF s.mirrorView THEN cw - px1 ELSE px1
  IN  [x |-> px2, y |-> py1]

\* ------------------------------------------------------------------------
\* utils/canvasRenderer: the camera feed in drawScene
\* ------------------------------------------------------------------------
\* the context's transformation matrix: (x, y) goes to
\* (a x + c y + e, b x + d y + f)
CtxIdentity == [a |-> 1, b |-> 0, c |-> 0, d |-> 1, e |-> 0, f |-> 0]

\* the context multiplies its matrix by the new one on the right
CtxMul(m, n) ==
  [ a |-> m.a * n.a + m.c * n.b, b |-> m.b * n.a + m.d * n.b,
    c |-> m.a * n.c + m.c * n.d, d |-> m.b * n.c + m.d * n.d,
    e |-> m.a * n.e + m.c * n.f + m.e, f |-> m.b * n.e + m.d * n.f + m.f ]

CtxTranslate(m, tx, ty) ==
  CtxMul(m, [a |-> 1, b |-> 0, c |-> 0, d |-> 1, e |-> tx, f |-> ty])
CtxScale(m, sx, sy) ==
  CtxMul(m, [a |-> sx, b |-> 0, c |-> 0, d |-> sy, e |-> 0, f |-> 0])
CtxRotate(m, deg) ==
  CtxMul(m, [a |-> Cos(deg), b |-> Sin(deg), c |-> -Sin(deg), d |-> Cos(deg),
             e |-> 0, f |-> 0])
CtxApply(m, x, y) ==
  [x |-> m.a * x + m.c * y + m.e, y |-> m.b * x + m.d * y + m.f]

\* the matrix under which drawScene draws the camera feed: the mirror is
\* applied to the context first, the rotation about the centre second
CameraCtx(s) ==
  LET m0 == CtxIdentity
      m1 == IF s.mirrorView
            THEN CtxScale(CtxTranslate(m0, CanvasW, 0), -1, 1) ELSE m0
      m2 == IF s.rotationDeg # 0
            THEN CtxTranslate(
                   CtxRotate(CtxTranslate(m1, CanvasW \div 2, CanvasH \div 2),
                             s.rotationDeg),
                   -(CanvasW \div 2), -(CanvasH \div 2))
            ELSE m1
  IN  m2

\* where drawImage(sourceCanvas, offsetX, offsetY, drawW, drawH) puts the
\* point raw (in 1/RawDen of the source frame) of the camera feed
drawPoint(raw, stats, s) ==
  LET wide == CanvasW * stats.height >= CanvasH * stats.width
      drawW == ((IF wide THEN CanvasW
                 ELSE (CanvasH * stats.width) \div stats.height) * s.scale)
               \div 10
      drawH == ((IF wide THEN (CanvasW * stats.height) \div stats.width
                 ELSE CanvasH) * s.scale) \div 10
      offsetX == (CanvasW - drawW) \div 2
      offsetY == (CanvasH - drawH) \div 2
  IN  CtxApply(CameraCtx(s), offsetX + (raw.x * drawW) \div RawDen,
               offsetY + (raw.y * drawH) \div RawDen)

\* a visibility check that looks at x only
IsVisibleXOnly(tTip) == tTip.x >= 0 /\ tTip.x <= CanvasW

\* the visibility check tTip.x >= 0 && tTip.x <= 1 && tTip.y >= 0 && tTip.y <= 1
IsVisible(tTip) ==
  tTip.x >= 0 /\ tTip.x <= CanvasW /\ tTip.y >= 0 /\ tTip.y <= CanvasH

\* the for loop over the candidates: the index of the first hand whose
\* transformed fingertip is visible, 0 when there is none
RECURSIVE FirstVisible(_, _, _, _)
FirstVisible(hands, i, stats, s) ==
  IF i > Len(hands) THEN 0
  ELSE IF IsVisible(transformCoords(hands[i].tip, stats, s)) THEN i
  ELSE FirstVisible(hands, i + 1, stats, s)

\* ------------------------------------------------------------------------
\* hooks/useHandTracking: the snapshot update shared by both paths
\* ------------------------------------------------------------------------
\* the refs after construction; nextAnalyzeDue is kept in thirds of a ms,
\* which makes 1000 / analysisFPS a whole number for every offered rate
NewTracking ==
  [ handsRef |-> FALSE, prevLms |-> Null, holdLeft |-> 0, lastAnalyze |-> 0,
    nextAnalyzeDue |-> 0, isAnalyzing |-> FALSE, isMounted |-> TRUE,
    sourceStats |-> [width |-> 640, height |-> 480] ]

\* path: what the last tracking step did ("remote", "dispatch", "idle",
\* "nosource", "results", "dropped" or "none"), with its candidates and its
\* choice
\* failed: a hands.send() call has rejected before
NoPick == [path |-> "none", hands |-> << >>, index |-> 0, failed |-> FALSE]

\* if (validHand) {...} else if (holdLeft > 0 && prevTip) {...} else {...};
\* withDepth tells the remote path, which carries depth_mm, from the local
\* one; the result is the new prevLms, prevTip and holdLeft
\* the refs' new values when validHand is set: smoothLms is the smoothed
\* landmark, already in pixels (rawTipNorm * width and * height)
AcceptSmoothed(smoothLms, t) ==
  [ prevLms |-> Some(smoothLms),
    prevTip |-> Some(smoothPoint(t, [x |-> smoothLms.x, y |-> smoothLms.y,
                                     depth |-> smoothLms.depth], TIP_ALPHA)),
    holdLeft |-> HOLD_FRAMES ]

\* the transformed landmark of the accepted hand; tr is its fingertip
\* through transformCoords
AcceptHand(hand, tr, h, t, withDepth) ==
  AcceptSmoothed(
    smoothLandmarks(h.prevLms,
                    [x |-> tr.x, y |-> tr.y,
                     depth |-> IF withDepth THEN hand.depth_mm ELSE 0],
                    SMOOTH_ALPHA),
    t)

\* branches that clear the snapshot on the first miss
SnapshotBranchNoHold(k, hands, h, t, s, withDepth) ==
  IF k # 0
  THEN AcceptHand(hands[k], transformCoords(hands[k].tip, h.sourceStats, s),
                  h, t, withDepth)
  ELSE [prevLms |-> Null, prevTip |-> Null, holdLeft |-> h.holdLeft]

\* the three branches, k being the index of validHand (0: none)
SnapshotBranch(k, hands, h, t, s, withDepth) ==
  IF k # 0
  THEN AcceptHand(hands[k], transformCoords(hands[k].tip, h.sourceStats, s),
                  h, t, withDepth)
  ELSE IF h.holdLeft > 0 /\ t # Null
  THEN [prevLms |-> h.prevLms, prevTip |-> t, holdLeft |-> h.holdLeft - 1]
  ELSE [prevLms |-> Null, prevTip |-> Null, holdLeft |-> h.holdLeft]

SnapshotUpdate(hands, h, t, s, withDepth) ==
  SnapshotBranch(FirstVisible(hands, 1, h.sourceStats, s), hands, h, t, s,
                 withDepth)

\* CanDispatch that does not look at isAnalyzingRef
CanDispatchNoFlag(h, src, nowv) ==
  /\ src.width # 0 /\ src.height # 0
  /\ h.handsRef
  /\ ~(3 * nowv < h.nextAnalyzeDue)

\* the guard of the local path: a source frame with a size, the estimator
\* initialised, no call in flight, the throttle interval elapsed
CanDispatch(h, src, nowv) ==
  /\ src.width # 0 /\ src.height # 0
  /\ h.handsRef
  /\ ~h.isAnalyzing
  /\ ~(3 * nowv < h.nextAnalyzeDue)

\* analyzeFrame(source, now, externalData) up to its await: the new refs,
\* the new prevTip and whether hands.send() was called
\* the refs with the snapshot u written to them
WithSnapshot(h, u) == [h EXCEPT !.prevLms = u.prevLms, !.holdLeft = u.holdLeft]

\* analyzeModes that takes the remote branch only when a remote candidate is
\* visible, and goes on to the on-device path otherwise
analyzeModesVisibleOnly(h1, t, src, nowv, externalData, s) ==
  IF externalData # Null /\ Len(externalData[1]) > 0 /\
     FirstVisible(externalData[1], 1, h1.sourceStats, s) # 0
  THEN LET Done(u) == [ ht |-> WithSnapshot(h1, u), tip |-> u.prevTip,
                        sent |-> FALSE, remote |-> TRUE ]
       IN  Done(SnapshotUpdate(externalData[1], h1, t, s, TRUE))
  ELSE IF CanDispatch(h1, src, nowv)
  THEN [ ht |-> [h1 EXCEPT !.lastAnalyze = nowv,
                           !.nextAnalyzeDue =
                              3 * nowv + 3000 \div s.analysisFPS,
                           !.isAnalyzing = TRUE],
         tip |-> t, sent |-> TRUE, remote |-> FALSE ]
  ELSE [ht |-> h1, tip |-> t, sent |-> FALSE, remote |-> FALSE]

\* analyzeFrame below the update of sourceStatsRef, h1 being the refs after it
analyzeModes(h1, t, src, nowv, externalData, s) ==
  IF externalData # Null /\ Len(externalData[1]) > 0
  THEN LET Done(u) == [ ht |-> WithSnapshot(h1, u), tip |-> u.prevTip,
                        sent |-> FALSE, remote |-> TRUE ]
       IN  Done(SnapshotUpdate(externalData[1], h1, t, s, TRUE))
  ELSE IF CanDispatch(h1, src, nowv)
  THEN [ ht |-> [h1 EXCEPT !.lastAnalyze = nowv,
                           !.nextAnalyzeDue =
                              3 * nowv + 3000 \div s.analysisFPS,
                           !.isAnalyzing = TRUE],
         tip |-> t, sent |-> TRUE, remote |-> FALSE ]
  ELSE [ht |-> h1, tip |-> t, sent |-> FALSE, remote |-> FALSE]

\* analyzeFrame that stamps lastAnalyzeRef on every call
analyzeFrameRestamp(h, t, src, nowv, externalData, s) ==
  LET a == analyzeModes(IF src.width # 0 /\ src.height # 0
                        THEN [h EXCEPT !.sourceStats = src] ELSE h,
                        t, src, nowv, externalData, s)
  IN  [a EXCEPT !.ht.lastAnalyze = nowv]

analyzeFrame(h, t, src, nowv, externalData, s) ==
  analyzeModes(IF src.width # 0 /\ src.height # 0
               THEN [h EXCEPT !.sourceStats = src] ELSE h,
               t, src, nowv, externalData, s)

\* ------------------------------------------------------------------------
\* History of the pointer, per zone (observations, not program state)
\* ------------------------------------------------------------------------
\*   ang      angle about the zone centre of the last fingertip a physics
\*            tick sampled, Null before the first one
\*   cwRun    degrees travelled in the current run of consecutive ticks with
\*            the fingertip inside the circle, each a clockwise step of
\*            2..179 degrees after the first; -1 outside such a run (a
\*            step of exactly 180 degrees has no direction: angleDiff gives
\*            +180 or -180 depending on the angles it is taken between)
\*   runSteps clockwise steps of that run, counted up to 2
\*   runBase  cwAccum (half degrees) left by the first tick of that run
\*   ccwOnly  every step between sampled fingertips since the runtime was
\*            created was counter-clockwise (1..179 degrees) or none
\*   ccwMoved a counter-clockwise step of at least 2 degrees was sampled
\*            while the zone stayed hand-inside
\*   outTicks consecutive standard-mode ticks with the fingertip beyond
\*            radius + margin since a standard-mode tick that found it
\*            inside the circle (counted up to 12); -1 when the last tick is
\*            of neither kind
NewHist ==
  [ ang |-> Null, cwRun |-> -1, runSteps |-> 0, runBase |-> 0,
    ccwOnly |-> TRUE,
    ccwMoved |-> FALSE, outTicks |-> -1 ]

\* the clockwise step from angle a to angle b, 0..359
CwStep(a, b) == (b - a) % 360

\* inside the circle and, in depth-gated mode, closer than the threshold
InsideZone(c, p, isProfessional, effectiveDepth) ==
  /\ DistWithin(c, p, 100 * c.radius)
  /\ isProfessional /\ effectiveDepth > 0 => effectiveDepth < depthTriggerMm

BeyondBand(c, p) == ~DistWithin(c, p, 100 * c.radius + Margin100(c))

HistAfter(c, h, rtBefore, rtAfter, t, isProfessional, effectiveDepth) ==
  IF t = Null
  THEN [h EXCEPT !.cwRun = -1, !.runSteps = 0, !.outTicks = -1]
  ELSE LET p == t[1]
           ang == calculateAngle(c.x, c.y, p.x, p.y)
           step == IF h.ang = Null THEN 0 ELSE CwStep(h.ang[1], ang)
           inside == InsideZone(c, p, isProfessional, effectiveDepth)
       IN  [ ang |-> Some(ang),
             cwRun |-> IF ~inside THEN -1
                       ELSE IF h.cwRun >= 0 /\ step >= STILL_EPS_DEG /\
                               step < 180
                       THEN h.cwRun + step
                       ELSE 0,
             runSteps |-> IF inside /\ h.cwRun >= 0 /\
                             step >= STILL_EPS_DEG /\ step < 180
                          THEN Min(h.runSteps + 1, 2) ELSE 0,
             runBase |-> IF inside /\ h.cwRun >= 0 /\
                            step >= STILL_EPS_DEG /\ step < 180
                         THEN h.runBase ELSE rtAfter.cwAccum,
             ccwOnly |-> h.ccwOnly /\ (step = 0 \/ step > 180),
             ccwMoved |-> \/ h.ccwMoved
                          \/ /\ step > 180 /\ step <= 360 - STILL_EPS_DEG
                             /\ rtBefore.isHandInside /\ rtAfter.isHandInside,
             outTicks |-> IF isProfessional THEN -1
                          ELSE IF BeyondBand(c, p)
                          THEN IF h.outTicks >= 0
                               THEN Min(h.outTicks + 1, LEAVE_GRACE_FRAMES + 2)
                               ELSE -1
                          ELSE IF DistWithin(c, p, 100 * c.radius) THEN 0
                          ELSE -1 ]

CircleOf(cs, id) == CHOOSE c \in {cs[i] : i \in 1..Len(cs)} : c.id = id

\* ------------------------------------------------------------------------
\* Inputs of the model
\* ------------------------------------------------------------------------
ZoneIds == {"a", "b"}

\* zone "a" is ControlPanel's default circle; zone "b" is a smaller circle,
\* whose leave margin is the 8 px minimum
Layout(id) ==
  IF id = "a"
  THEN [id |-> "a", x |-> 480, y |-> 360, radius |-> 50,
        imgPath |-> "", audioPath |-> ""]
  ELSE [id |-> "b", x |-> 200, y |-> 360, radius |-> 30,
        imgPath |-> "", audioPath |-> ""]

AudioPaths == {"", "https://h/one.mp3", "https://h/two.mp3"}
ImgPaths == {"", "https://h/spin.gif"}

\* fingertips about zone "a": its centre (0 degrees), inside at 1, 2, 90 and
\* -90 degrees, on the outer edge of the hysteresis band, just beyond it
TipCentre == [x |-> 480, y |-> 360, depth |-> 0]
TipDeg1 == [x |-> 520, y |-> 361, depth |-> 0]
TipDeg2 == [x |-> 508, y |-> 361, depth |-> 0]
TipDeg90 == [x |-> 480, y |-> 410, depth |-> 0]
TipDegM90 == [x |-> 480, y |-> 310, depth |-> 0]
TipBand == [x |-> 539, y |-> 360, depth |-> 0]
TipOut == [x |-> 540, y |-> 360, depth |-> 0]
\* fingertips about zone "b": its centre, the edge of its band, beyond it
TipCentreB == [x |-> 200, y |-> 360, depth |-> 0]
TipBandB == [x |-> 238, y |-> 360, depth |-> 0]
TipOutB == [x |-> 239, y |-> 360, depth |-> 0]

\* ------------------------------------------------------------------------
\* hooks/useWebSocketFeed: the bridge socket
\* ------------------------------------------------------------------------
\* the watchdog's threshold and period, in ms
WD_LIMIT_MS == 2500
WD_PERIOD_MS == 1000
\* silence is performance.now() - lastFrameTimeRef.current, kept up to this
\* value (every value above WD_LIMIT_MS + WD_PERIOD_MS behaves alike)
SilenceCap == 4000

\* state      readyState of wsRef.current ("none": wsRef.current is null)
\* handsRef, depthRef   the refs the message handler writes
\* silence    time since lastFrameTimeRef was written
\* wdPhase    time since the watchdog interval was started or fired last
\* isConnected          the React state
\* staleClose an open socket this hook closed has not delivered its close
\*            event yet
\* old        readyState of a socket that the effect replaced without
\*            closing it ("none": there is no such socket)
\* canvas     the size of canvasRef.current (the feed canvas)
\* images     the sizes of the images whose onload is pending
NewLink ==
  [ state |-> "none", handsRef |-> Null, depthRef |-> 0, silence |-> 0,
    wdPhase |-> 0, isConnected |-> FALSE, staleClose |-> FALSE,
    old |-> "none",
    canvas |-> [width |-> 1, height |-> 1], images |-> << >> ]

\* isActive: settings.cameraType === 'professional' && !isPaused
IsActive(s) == s.cameraType = "professional"

\* the connection effect, run because url, isActive or retryKey changed: the
\* cleanup of the previous run, which closes its socket if it is OPEN, then
\* the body, which closes wsRef.current when the feed is not active and
\* creates a socket when it is
LinkEffect(w, active) ==
  IF ~active
  THEN IF w.state = "none" THEN w
       ELSE [w EXCEPT !.state = "none", !.isConnected = FALSE,
                      !.staleClose = @ \/ w.state = "open"]
  ELSE [w EXCEPT !.state = "connecting", !.wdPhase = 0,
                 !.staleClose = @ \/ w.state = "open",
                 !.old = IF w.state = "connecting" THEN "connecting" ELSE @]

\* ws.onmessage without its try / catch: a frame that does not parse is
\* taken for a frame that carries nothing and clears the hands
OnMessageNoCatch(w, m) ==
  IF ~m.ok THEN [w EXCEPT !.handsRef = Some(<< >>)]
  ELSE [w EXCEPT
          !.depthRef = IF m.depth # Null THEN m.depth[1] ELSE @,
          !.handsRef = IF m.hands # Null THEN m.hands
                       ELSE IF m.type = "gesture" THEN Some(<< >>) ELSE @,
          !.images = IF m.image # Null THEN Append(@, m.image[1]) ELSE @,
          !.silence = IF m.image = Null /\ m.type = "gesture" THEN 0 ELSE @]

\* ws.onmessage: m.ok tells whether JSON.parse(event.data) succeeds; a
\* field that the frame does not carry is Null
OnMessage(w, m) ==
  IF ~m.ok THEN w
  ELSE [w EXCEPT
          !.depthRef = IF m.depth # Null THEN m.depth[1] ELSE @,
          !.handsRef = IF m.hands # Null THEN m.hands
                       ELSE IF m.type = "gesture" THEN Some(<< >>) ELSE @,
          !.images = IF m.image # Null THEN Append(@, m.image[1]) ELSE @,
          !.silence = IF m.image = Null /\ m.type = "gesture" THEN 0 ELSE @]

\* the object the hook returns to a render: hands: handsRef.current
\* (depthMm: depthRef.current is the variable depthMm)
FeedOf(w) == [hands |-> w.handsRef]

\* ------------------------------------------------------------------------
\* CanvasLayer.tsx: local camera management
\* ------------------------------------------------------------------------
\* the delays of initCamera, in ms
CAM_FIRST_DELAY_MS == 500
CAM_RETRY_DELAY_MS == 1000
CAM_RETRY_TIMER_MS == 500
CAM_MAX_RETRY == 2

\* phase   where the initCamera chain of the current effect run stands:
\*         "delay" (awaiting the setTimeout promise), "request" (awaiting
\*         getUserMedia), "timer" (the retry timer is pending), "playing",
\*         "failed", "off" (professional mode: no chain)
\* retry   the argument of the current initCamera call
\* waited  the time the chain's timers have taken since the effect started
\*         or since the last getUserMedia failure
\* waits   the values of waited at each getUserMedia call of this run
\* error   cameraError (Null: null)
\* left    ms until the chain's pending timer fires (0: due, or no timer)
\* stream  videoRef.current.srcObject holds a live stream
\* stale   the chains of earlier effect runs (their isMounted is false)
\*         that still have code to run: [phase, left] with phase "timer"
\*         (retry timer pending), "delay" (the retry's setTimeout promise
\*         pending) or "request" (getUserMedia pending)
NewCamera ==
  [ phase |-> "delay", retry |-> 0, waited |-> 0, waits |-> << >>,
    error |-> Null, left |-> CAM_FIRST_DELAY_MS, stream |-> FALSE,
    stale |-> {} ]

\* an initCamera that requests the stream at once
InitDelayNone(retry) == 0

\* const delay = retry > 0 ? 1000 : 500
InitDelay(retry) ==
  IF retry > 0 THEN CAM_RETRY_DELAY_MS ELSE CAM_FIRST_DELAY_MS

\* the cleanup of the camera effect: isMounted = false for the chain of the
\* run that ends, the stream stopped and detached; a chain that waits for
\* getUserMedia or for its retry timer goes on with isMounted false
CamCleanup(c) ==
  [c EXCEPT !.stream = FALSE,
            !.stale = IF c.phase \in {"request", "timer"}
                      THEN @ \cup {[phase |-> c.phase, left |-> c.left]}
                      ELSE @]

\* the camera effect, run because settings.cameraType or settings.deviceId
\* changed: the cleanup of the previous run, then the body
CamEffect(c, s) ==
  IF s.cameraType = "professional"
  THEN [CamCleanup(c) EXCEPT !.phase = "off", !.left = 0]
  ELSE [CamCleanup(c) EXCEPT !.phase = "delay", !.retry = 0, !.waited = 0,
                             !.waits = << >>, !.left = InitDelay(0)]

\* no helper has been applied on its own
NoCalc == [fn |-> "none"]

\* ------------------------------------------------------------------------
\* Operations
\* ------------------------------------------------------------------------
Init ==
  /\ circles = << >>
  /\ settings = DEFAULT_SETTINGS
  /\ runtimeMap = << >>
  /\ tip = Null
  /\ depthMm = 0
  /\ now = 0
  /\ calls = [id \in ZoneIds |-> {}]
  /\ lastOp = "init"
  /\ hist = [id \in ZoneIds |-> NewHist]
  /\ ht = NewTracking
  /\ inflight = << >>
  /\ pick = NoPick
  /\ ws = NewLink
  /\ wsFeed = FeedOf(NewLink)
  /\ cam = NewCamera
  /\ calc = NoCalc

\* the history follows the runtime: a created runtime starts a new history
HistSync(rmBefore, rmAfter) ==
  [id \in ZoneIds |->
     IF id \in DOMAIN rmAfter /\ id \in DOMAIN rmBefore THEN hist[id]
     ELSE NewHist]

\* a commit with new circles: the prop changes and the sync effect runs
CommitCircles(cs) ==
  /\ ht.isMounted
  /\ circles' = cs
  /\ runtimeMap' = SyncRuntime(cs, runtimeMap)
  /\ \A id \in DOMAIN runtimeMap' : runtimeMap'[id].gifLoads <= MaxGifLoads
  /\ hist' = HistSync(runtimeMap, runtimeMap')
  /\ UNCHANGED calc
  /\ lastOp' = "circles"
  /\ wsFeed' = FeedOf(ws)
  /\ depthMm' = ws.depthRef
  /\ UNCHANGED << settings, tip, now, calls, trackVars, ws, cam >>

\* addCircle: setCircles(prev => [...prev, newCircle])
AddCircle(id) ==
  /\ id \notin Ids(circles)
  /\ CommitCircles(Append(circles, Layout(id)))

\* removeCircle: setCircles(prev => prev.filter(c => c.id !== id))
RemoveCircle(id) ==
  /\ id \in Ids(circles)
  /\ CommitCircles(SelectSeq(circles, LAMBDA c : c.id # id))

\* updateSetting(key, value), the render that follows and the effects whose
\* dependencies changed
UpdateSetting(key, value) ==
  /\ ht.isMounted
  /\ settings[key] # value
  /\ settings' = [settings EXCEPT ![key] = value]
  /\ ws' = IF key \in {"cameraType", "wsUrl"}
           THEN LinkEffect(ws, IsActive(settings'))
           ELSE ws
  /\ cam' = IF key \in {"cameraType", "deviceId"}
            THEN CamEffect(cam, settings') ELSE cam
  /\ wsFeed' = FeedOf(ws)
  /\ depthMm' = ws.depthRef
  /\ UNCHANGED calc
  /\ lastOp' = "settings"
  /\ UNCHANGED << circles, runtimeMap, tip, now, calls, hist, trackVars >>

\* one pass of the render loop that finds the snapshot t: physics
Tick(dt, t, maxNow) ==
  /\ ht.isMounted
  /\ now + dt <= maxNow
  /\ now' = now + dt
  /\ tip' = t
  /\ LET isPro == settings.cameraType = "professional"
         depth == IF isPro THEN depthMm ELSE 0
         eff == EffectiveDepth(isPro, t, depth)
     IN  /\ runtimeMap' = updateCirclePhysics(circles, runtimeMap, t, settings,
                                              depth, now')
         /\ calls' = [id \in ZoneIds |->
                        IF id \in DOMAIN runtimeMap
                        THEN PhysicsCalls(circles, runtimeMap, t, settings,
                                          depth, now')[id]
                        ELSE {}]
         /\ hist' = [id \in ZoneIds |->
                       IF id \in DOMAIN runtimeMap /\ id \in Ids(circles) /\
                          ~settings.isMappingEdit
                       THEN HistAfter(CircleOf(circles, id), hist[id],
                                      runtimeMap[id], runtimeMap'[id], t,
                                      isPro, eff)
                       ELSE hist[id]]
  /\ UNCHANGED calc
  /\ lastOp' = IF settings.isMappingEdit THEN "skip" ELSE "tick"
  /\ UNCHANGED << circles, settings, depthMm, trackVars, linkVars >>


\* updateCircle(id, { audioPath }) or updateCircle(id, { imgPath }), and
\* the sync effect
UpdateCircle(id, field, path) ==
  /\ id \in Ids(circles)
  /\ CircleOf(circles, id)[field] # path
  /\ CommitCircles([i \in 1..Len(circles) |->
                      IF circles[i].id = id
                      THEN [circles[i] EXCEPT ![field] = path]
                      ELSE circles[i]])

\* gifler(...).then(anim => { rt.gifAnim = anim; anim.pause(); })
GifLoaded(id) ==
  /\ id \in DOMAIN runtimeMap
  /\ runtimeMap[id].gifLoads > 0
  /\ runtimeMap' = [runtimeMap EXCEPT
                      ![id].gifLoads = @ - 1,
                      ![id].gifAnim = Some([playing |-> FALSE])]
  /\ UNCHANGED calc
  /\ lastOp' = "gif"
  /\ UNCHANGED << circles, settings, tip, depthMm, now, calls, hist,
                  trackVars, linkVars >>

\* CanvasLayer is unmounted: the cleanups of its effects run. The loop's
\* cancels the animation frame, the camera's stops the stream, the
\* socket's clears the watchdog and closes an open socket, the tracker's
\* clears its flag and closes the estimator; the runtime sync effect
\* returns no cleanup
Unmount ==
  /\ ht.isMounted
  /\ ht' = [ht EXCEPT !.isMounted = FALSE, !.handsRef = FALSE]
  /\ cam' = [CamCleanup(cam) EXCEPT !.phase = "off", !.left = 0]
  /\ ws' = IF ws.state = "open"
           THEN [ws EXCEPT !.state = "closed", !.staleClose = TRUE]
           ELSE ws
  /\ UNCHANGED calc
  /\ lastOp' = "unmount"
  /\ UNCHANGED << circles, settings, runtimeMap, tip, depthMm, now, calls,
                  hist, inflight, pick, wsFeed >>

\* ------------------------------------------------------------------------
\* Specification of the engine: configuration, settings and render loop
\* ------------------------------------------------------------------------
EngineTips == {Null, Some(TipCentre), Some(TipDeg90), Some(TipOut)}

\* elapsed time between two render ticks, in ms
DtSet == {1000, 2001}

Next ==
  \/ \E id \in ZoneIds : AddCircle(id)
  \/ \E id \in ZoneIds : RemoveCircle(id)
  \/ \E path \in AudioPaths : UpdateCircle("a", "audioPath", path)
  \/ \E v \in {"standard", "professional"} : UpdateSetting("cameraType", v)
  \/ \E v \in BOOLEAN : UpdateSetting("isMappingEdit", v)
  \/ \E dt \in DtSet, t \in EngineTips : Tick(dt, t, MaxNow)

Spec == Init /\ [][Next]_vars

\* ------------------------------------------------------------------------
\* Specification of the media: one zone, its audio and its animation
\* ------------------------------------------------------------------------
NextMedia ==
  \/ AddCircle("a")
  \/ RemoveCircle("a")
  \/ \E path \in AudioPaths : UpdateCircle("a", "audioPath", path)
  \/ \E path \in ImgPaths : UpdateCircle("a", "imgPath", path)
  \/ GifLoaded("a")
  \/ \E dt \in DtSet, t \in EngineTips : Tick(dt, t, MaxNow)
  \/ Unmount

SpecMedia == Init /\ [][NextMedia]_vars


\* ------------------------------------------------------------------------
\* Specification of the gesture: one configured zone, every fingertip
\* ------------------------------------------------------------------------
\* the engine after addCircle and updateCircle(audioPath) for zone "a"
InitZone ==
  /\ circles = << [Layout("a") EXCEPT !.audioPath = "https://h/one.mp3"] >>
  /\ settings = DEFAULT_SETTINGS
  /\ runtimeMap = SyncRuntime(circles, << >>)
  /\ tip = Null
  /\ depthMm = 0
  /\ now = 0
  /\ calls = [id \in ZoneIds |-> {}]
  /\ lastOp = "circles"
  /\ hist = [id \in ZoneIds |-> NewHist]
  /\ ht = NewTracking
  /\ inflight = << >>
  /\ pick = NoPick
  /\ ws = NewLink
  /\ wsFeed = FeedOf(NewLink)
  /\ cam = NewCamera
  /\ calc = NoCalc

GestureTips ==
  { Null, Some(TipCentre), Some(TipDeg1), Some(TipDeg2), Some(TipDeg90),
    Some(TipDegM90), Some(TipBand), Some(TipOut) }

DtGesture == {500, 2001}

NextGesture ==
  \/ \E v \in {"standard", "professional"} : UpdateSetting("cameraType", v)
  \/ \E v \in BOOLEAN : UpdateSetting("isMappingEdit", v)
  \/ \E dt \in DtGesture, t \in GestureTips : Tick(dt, t, MaxGestureNow)

SpecGesture == InitZone /\ [][NextGesture]_vars

\* ------------------------------------------------------------------------
\* Specification of the leave grace: one configured zone, frame-rate ticks
\* ------------------------------------------------------------------------
GraceTips == { Null, Some(TipCentre), Some(TipBand), Some(TipOut) }

DtGrace == {100}

NextGrace ==
  \/ \E v \in {"standard", "professional"} : UpdateSetting("cameraType", v)
  \/ \E dt \in DtGrace, t \in GraceTips : Tick(dt, t, MaxGraceNow)

SpecGrace == InitZone /\ [][NextGrace]_vars

\* ------------------------------------------------------------------------
\* Specification of the slow orbit: one configured zone, a fingertip that
\* enters at -46 degrees and goes clockwise one degree at a time or rests
\* ------------------------------------------------------------------------
\* (dy, dx) from the centre of zone "a" at -46, -45, ..., 47 degrees
CreepOffsets ==
  << <<-29, 28>>, <<-28, 28>>, <<-29, 30>>, <<-28, 29>>, <<-27, 29>>,
     <<-27, 30>>, <<-26, 30>>, <<-26, 31>>, <<-25, 31>>, <<-25, 32>>,
     <<-24, 32>>, <<-23, 32>>, <<-23, 33>>, <<-22, 33>>, <<-22, 34>>,
     <<-21, 34>>, <<-20, 34>>, <<-20, 35>>, <<-19, 35>>, <<-18, 35>>,
     <<-18, 36>>, <<-17, 36>>, <<-17, 37>>, <<-16, 37>>, <<-15, 37>>,
     <<-15, 38>>, <<-14, 37>>, <<-13, 37>>, <<-13, 38>>, <<-12, 38>>,
     <<-11, 38>>, <<-11, 39>>, <<-10, 39>>, <<-9, 38>>, <<-9, 39>>,
     <<-8, 39>>, <<-7, 39>>, <<-7, 40>>, <<-6, 40>>, <<-5, 40>>,
     <<-5, 41>>, <<-4, 40>>, <<-3, 40>>, <<-2, 38>>, <<-2, 40>>,
     <<-1, 40>>, <<0, 40>>, <<1, 40>>, <<2, 40>>, <<2, 38>>,
     <<3, 40>>, <<4, 40>>, <<5, 41>>, <<5, 40>>, <<6, 40>>,
     <<7, 40>>, <<7, 39>>, <<8, 39>>, <<9, 39>>, <<9, 38>>,
     <<10, 39>>, <<11, 39>>, <<11, 38>>, <<12, 38>>, <<13, 38>>,
     <<13, 37>>, <<14, 37>>, <<15, 38>>, <<15, 37>>, <<16, 37>>,
     <<17, 37>>, <<17, 36>>, <<18, 36>>, <<18, 35>>, <<19, 35>>,
     <<20, 35>>, <<20, 34>>, <<21, 34>>, <<22, 34>>, <<22, 33>>,
     <<23, 33>>, <<23, 32>>, <<24, 32>>, <<25, 32>>, <<25, 31>>,
     <<26, 31>>, <<26, 30>>, <<27, 30>>, <<27, 29>>, <<28, 29>>,
     <<29, 30>>, <<28, 28>>, <<29, 28>>, <<29, 27>> >>

CreepTip(k) ==
  [x |-> 480 + CreepOffsets[k][2], y |-> 360 + CreepOffsets[k][1],
   depth |-> 0]

DtCreep == {20}

CreepTick(dt, k) ==
  /\ \/ tip = Null /\ k = 1
     \/ \E j \in {k - 1, k} \cap (1..Len(CreepOffsets)) :
          tip = Some(CreepTip(j))
  /\ Tick(dt, Some(CreepTip(k)), MaxCreepNow)

NextCreep ==
  \E dt \in DtCreep, k \in 1..Len(CreepOffsets) : CreepTick(dt, k)

SpecCreep == InitZone /\ [][NextCreep]_vars

\* ------------------------------------------------------------------------
\* Specification of the wide orbit: one configured zone, a fingertip at its
\* centre or beyond its band at 0, 45 and 90 degrees
\* ------------------------------------------------------------------------
TipOut45 == [x |-> 523, y |-> 403, depth |-> 0]
TipOut90 == [x |-> 480, y |-> 420, depth |-> 0]

OrbitTips ==
  { Null, Some(TipCentre), Some(TipOut), Some(TipOut45), Some(TipOut90) }

DtOrbit == {100}

NextOrbit == \E dt \in DtOrbit, t \in OrbitTips : Tick(dt, t, MaxOrbitNow)

SpecOrbit == InitZone /\ [][NextOrbit]_vars


\* ------------------------------------------------------------------------
\* Specification of the source arbiter: render loop, estimator, no zones
\* ------------------------------------------------------------------------
\* attemptInit: window.Hands is available and the estimator is created
InitMediaPipe ==
  /\ ht.isMounted /\ ~ht.handsRef
  /\ ht' = [ht EXCEPT !.handsRef = TRUE]
  /\ UNCHANGED calc
  /\ lastOp' = "init"
  /\ UNCHANGED << circles, settings, runtimeMap, tip, depthMm, now, calls,
                  hist, inflight, pick, linkVars >>

\* one pass of the render loop: analyzeFrame up to its await, then physics;
\* src is the size of the source frame (Null: no source yet), rh wsFeed.hands
LoopTick(dt, src, rh, maxNow) ==
  /\ ht.isMounted
  /\ now + dt <= maxNow
  /\ now' = now + dt
  /\ LET isPro == settings.cameraType = "professional"
         remoteHands == IF isPro THEN rh ELSE Null
         depth == IF isPro THEN depthMm ELSE 0
     IN  \E a \in { IF src = Null
                    THEN [ht |-> ht, tip |-> tip, sent |-> FALSE,
                          remote |-> FALSE]
                    ELSE analyzeFrame(ht, tip, src[1], now', remoteHands,
                                      settings) } :
         /\ ht' = a.ht
         /\ tip' = a.tip
         /\ inflight' = IF a.sent THEN Append(inflight, "sent") ELSE inflight
         /\ pick' = IF a.remote
                    THEN [path |-> "remote", hands |-> remoteHands[1],
                          index |-> FirstVisible(remoteHands[1], 1,
                                                 a.ht.sourceStats, settings),
                          failed |-> pick.failed]
                    ELSE [path |-> IF a.sent THEN "dispatch"
                                   ELSE IF src = Null THEN "nosource"
                                   ELSE "idle",
                          hands |-> << >>, index |-> 0,
                          failed |-> pick.failed]
         /\ runtimeMap' = updateCirclePhysics(circles, runtimeMap, a.tip,
                                              settings, depth, now')
         /\ calls' = [id \in ZoneIds |->
                        IF id \in DOMAIN runtimeMap
                        THEN PhysicsCalls(circles, runtimeMap, a.tip, settings,
                                          depth, now')[id]
                        ELSE {}]
         /\ hist' = [id \in ZoneIds |->
                       IF id \in DOMAIN runtimeMap /\ id \in Ids(circles) /\
                          ~settings.isMappingEdit
                       THEN HistAfter(CircleOf(circles, id), hist[id],
                                      runtimeMap[id], runtimeMap'[id], a.tip,
                                      isPro,
                                      EffectiveDepth(isPro, a.tip, depth))
                       ELSE hist[id]]
  /\ UNCHANGED calc
  /\ lastOp' = IF settings.isMappingEdit THEN "skip" ELSE "tick"
  /\ UNCHANGED << circles, settings, depthMm, linkVars >>

\* a callback that never returns early
ResultsDroppedNever(h) == FALSE

\* the first statement of the callback: if (!isMounted) return
ResultsDropped(h) == ~h.isMounted

\* hands.onResults(results) for the i-th call in flight
OnResults(i, hands) ==
  /\ i \in 1..Len(inflight) /\ inflight[i] = "sent"
  /\ inflight' = [inflight EXCEPT ![i] = "resulted"]
  /\ IF ResultsDropped(ht)
     THEN /\ pick' = [path |-> "dropped", hands |-> hands, index |-> 0,
                      failed |-> pick.failed]
          /\ UNCHANGED << ht, tip, wsFeed, depthMm >>
     ELSE \E u \in {SnapshotUpdate(hands, ht, tip, settings, FALSE)} :
              /\ ht' = WithSnapshot(ht, u)
              /\ tip' = u.prevTip
              /\ pick' = [path |-> "results", hands |-> hands,
                          index |-> FirstVisible(hands, 1, ht.sourceStats,
                                                 settings),
                          failed |-> pick.failed]
              \* onStats(AI_LATENCY...) renders the component again when
              \* the text differs from the last one
              /\ \E render \in BOOLEAN :
                    /\ wsFeed' = IF render THEN FeedOf(ws) ELSE wsFeed
                    /\ depthMm' = IF render THEN ws.depthRef ELSE depthMm
  /\ UNCHANGED calc
  /\ lastOp' = "results"
  /\ UNCHANGED << circles, settings, runtimeMap, now, calls, hist, ws, cam >>

\* a completion that leaves the flag as it is
FinallyMissing(h) == h

\* the refs after "finally { isAnalyzingRef.current = false }"
Finally(h) == [h EXCEPT !.isAnalyzing = FALSE]

\* await hands.send(...) returns for the i-th call, after its results
SendResolve(i) ==
  /\ i \in 1..Len(inflight) /\ inflight[i] = "resulted"
  /\ inflight' = [j \in 1..(Len(inflight) - 1) |->
                    IF j < i THEN inflight[j] ELSE inflight[j + 1]]
  /\ ht' = Finally(ht)
  /\ UNCHANGED calc
  /\ lastOp' = "resolve"
  /\ UNCHANGED << circles, settings, runtimeMap, tip, depthMm, now, calls,
                  hist, pick, linkVars >>

\* hands.send(...) rejects for the i-th call, before or after its results:
\* catch, then finally
SendReject(i) ==
  /\ i \in 1..Len(inflight) /\ inflight[i] \in {"sent", "resulted"}
  /\ inflight' = [j \in 1..(Len(inflight) - 1) |->
                    IF j < i THEN inflight[j] ELSE inflight[j + 1]]
  /\ ht' = Finally(ht)
  /\ pick' = [pick EXCEPT !.failed = TRUE]
  /\ UNCHANGED calc
  /\ lastOp' = "reject"
  /\ UNCHANGED << circles, settings, runtimeMap, tip, depthMm, now, calls,
                  hist, linkVars >>

\* detected hands: the fingertip in eighths of the source frame (the centre,
\* the left edge, the lower edge), and the depth the bridge reports
HandMid == [tip |-> [x |-> 4, y |-> 4], depth_mm |-> 1500]
HandLeft == [tip |-> [x |-> 0, y |-> 4], depth_mm |-> 1600]
HandLow == [tip |-> [x |-> 4, y |-> 8], depth_mm |-> 1700]

HandLists ==
  { << >>, <<HandMid>>, <<HandLeft>>, <<HandLow>>, <<HandLeft, HandMid>>,
    <<HandLow, HandLeft>> }

SrcSizes == { [width |-> 640, height |-> 480], [width |-> 1280, height |-> 720] }

TrackSettings ==
  { [DEFAULT_SETTINGS EXCEPT !.rotationDeg = r, !.scale = z]
      : r \in {0, 90}, z \in {10, 20} }

DtTrack == {20, 40}

InitTrack ==
  /\ circles = << >>
  /\ settings \in TrackSettings
  /\ runtimeMap = << >>
  /\ tip = Null
  /\ depthMm = 0
  /\ now = 0
  /\ calls = [id \in ZoneIds |-> {}]
  /\ lastOp = "init"
  /\ hist = [id \in ZoneIds |-> NewHist]
  /\ ht = NewTracking
  /\ inflight = << >>
  /\ pick = NoPick
  /\ ws = NewLink
  /\ wsFeed = FeedOf(NewLink)
  /\ cam = NewCamera
  /\ calc = NoCalc

NextTrack ==
  \/ InitMediaPipe
  \/ \E v \in {"standard", "professional"} : UpdateSetting("cameraType", v)
  \/ \E dt \in DtTrack, src \in SrcSizes, hs \in HandLists :
       LoopTick(dt, Some(src), Some(hs), MaxTrackNow)
  \/ \E dt \in DtTrack : LoopTick(dt, Null, Null, MaxTrackNow)
  \/ \E i \in 1..Len(inflight), hs \in HandLists : OnResults(i, hs)
  \/ \E i \in 1..Len(inflight) : SendResolve(i)
  \/ \E i \in 1..Len(inflight) : SendReject(i)
  \/ Unmount

SpecTrack == InitTrack /\ [][NextTrack]_vars

\* ------------------------------------------------------------------------
\* The bridge socket's handlers and timers
\* ------------------------------------------------------------------------
\* ws.onopen; setIsConnected renders the component again
WsOpen ==
  /\ ws.state = "connecting"
  /\ ws' = [ws EXCEPT !.state = "open", !.isConnected = TRUE, !.silence = 0]
  /\ wsFeed' = FeedOf(ws)
  /\ depthMm' = ws.depthRef
  /\ UNCHANGED calc
  /\ lastOp' = "open"
  /\ UNCHANGED << circles, settings, runtimeMap, tip, now, calls, hist,
                  trackVars, cam >>

\* ws.onmessage for one frame of the bridge; nothing is rendered
WsMessage(m) ==
  /\ ws.state = "open"
  /\ m.ok /\ m.image # Null => Len(ws.images) < MaxImages
  /\ ws' = OnMessage(ws, m)
  /\ UNCHANGED calc
  /\ lastOp' = IF m.ok THEN "message" ELSE "badmessage"
  /\ UNCHANGED << circles, settings, runtimeMap, tip, depthMm, now, calls,
                  hist, trackVars, wsFeed, cam >>

\* img.onload of the i-th pending image: the feed canvas takes its size
ImageLoaded(i) ==
  /\ i \in 1..Len(ws.images)
  /\ ws' = [ws EXCEPT !.canvas = ws.images[i], !.silence = 0,
                      !.images = [j \in 1..(Len(ws.images) - 1) |->
                                    IF j < i THEN ws.images[j]
                                    ELSE ws.images[j + 1]]]
  /\ UNCHANGED calc
  /\ lastOp' = "image"
  /\ UNCHANGED << circles, settings, runtimeMap, tip, depthMm, now, calls,
                  hist, trackVars, wsFeed, cam >>

\* a render of CanvasLayer for a reason outside the model (App's state):
\* useWebSocketFeed returns the refs' current values
Rerender ==
  /\ ht.isMounted
  /\ wsFeed # FeedOf(ws) \/ depthMm # ws.depthRef
  /\ wsFeed' = FeedOf(ws)
  /\ depthMm' = ws.depthRef
  /\ UNCHANGED calc
  /\ lastOp' = "render"
  /\ UNCHANGED << circles, settings, runtimeMap, tip, now, calls, hist,
                  trackVars, ws, cam >>

\* ws.onclose of the current socket, closed by the server or the network
WsClosed ==
  /\ ws.state \in {"connecting", "open"}
  /\ ws' = [ws EXCEPT !.state = "closed", !.isConnected = FALSE]
  /\ wsFeed' = FeedOf(ws)
  /\ depthMm' = ws.depthRef
  /\ UNCHANGED calc
  /\ lastOp' = "closed"
  /\ UNCHANGED << circles, settings, runtimeMap, tip, now, calls, hist,
                  trackVars, cam >>

\* ws.onerror of the current socket: onStats only
WsError ==
  /\ ws.state \in {"connecting", "open"}
  /\ wsFeed' = FeedOf(ws)
  /\ depthMm' = ws.depthRef
  /\ UNCHANGED calc
  /\ lastOp' = "error"
  /\ UNCHANGED << circles, settings, runtimeMap, tip, now, calls, hist,
                  trackVars, ws, cam >>

\* ws.onclose of a socket the hook closed earlier
StaleClose ==
  /\ ws.staleClose
  /\ ws' = [ws EXCEPT !.staleClose = FALSE, !.isConnected = FALSE]
  /\ wsFeed' = FeedOf(ws)
  /\ depthMm' = ws.depthRef
  /\ UNCHANGED calc
  /\ lastOp' = "staleclose"
  /\ UNCHANGED << circles, settings, runtimeMap, tip, now, calls, hist,
                  trackVars, cam >>

\* one pass of the render loop on the source the mode selects: the feed
\* canvas and wsFeed.hands in professional mode, the video once it plays
LoopFrame(dt, maxNow) ==
  LoopTick(dt,
           IF settings.cameraType = "professional" THEN Some(ws.canvas)
           ELSE IF cam.stream
                THEN Some([width |-> 640, height |-> 480]) ELSE Null,
           wsFeed.hands, maxNow)

\* ------------------------------------------------------------------------
\* Specification of the arbiter on the bridge: one zone, the socket's
\* messages, renders, the render loop and the on-device estimator
\* ------------------------------------------------------------------------
\* a hand whose fingertip lies beside the frame
HandOff == [tip |-> [x |-> 9, y |-> 4], depth_mm |-> 1500]

\* frames of the bridge: a hand with depth, a hand outside the view, an
\* empty hands array, a gesture frame without hands, an image, and a frame
\* that is no JSON
MsgHand ==
  [ok |-> TRUE, hands |-> Some(<<HandMid>>), type |-> "gesture",
   depth |-> Some(1500), image |-> Null]
MsgHandOff ==
  [ok |-> TRUE, hands |-> Some(<<HandOff>>), type |-> "gesture",
   depth |-> Null, image |-> Null]
MsgNoHands ==
  [ok |-> TRUE, hands |-> Some(<< >>), type |-> "gesture", depth |-> Null,
   image |-> Null]
MsgGesture ==
  [ok |-> TRUE, hands |-> Null, type |-> "gesture", depth |-> Null,
   image |-> Null]
MsgImage ==
  [ok |-> TRUE, hands |-> Null, type |-> "frame", depth |-> Some(2000),
   image |-> Some([width |-> 640, height |-> 480])]
MsgBad ==
  [ok |-> FALSE, hands |-> Null, type |-> "", depth |-> Null, image |-> Null]

BridgeMsgs == {MsgHand, MsgHandOff, MsgNoHands, MsgBad}

DtBridge == {20, 40}

InitBridge ==
  /\ circles = << Layout("a") >>
  /\ settings = DEFAULT_SETTINGS
  /\ runtimeMap = SyncRuntime(circles, << >>)
  /\ tip = Null
  /\ depthMm = 0
  /\ now = 0
  /\ calls = [id \in ZoneIds |-> {}]
  /\ lastOp = "circles"
  /\ hist = [id \in ZoneIds |-> NewHist]
  /\ ht = NewTracking
  /\ inflight = << >>
  /\ pick = NoPick
  /\ ws = NewLink
  /\ wsFeed = FeedOf(NewLink)
  /\ cam = NewCamera
  /\ calc = NoCalc

NextBridge ==
  \/ InitMediaPipe
  \/ \E v \in {"standard", "professional"} : UpdateSetting("cameraType", v)
  \/ WsOpen
  \/ \E m \in BridgeMsgs : WsMessage(m)
  \/ Rerender
  \/ \E dt \in DtBridge : LoopFrame(dt, MaxBridgeNow)
  \/ \E i \in 1..Len(inflight), hs \in {<< >>, <<HandMid>>} : OnResults(i, hs)
  \/ \E i \in 1..Len(inflight) : SendResolve(i)
  \/ \E i \in 1..Len(inflight) : SendReject(i)

SpecBridge == InitBridge /\ [][NextBridge]_vars

\* ------------------------------------------------------------------------
\* Specification of the writers of a zone's runtime: the render loop
\* (arbiter, physics, drawing), the estimator's callback, the socket's
\* handler and the runtime sync effect, on one zone
\* ------------------------------------------------------------------------
DtFrame == {20}

NextFrame ==
  \/ InitMediaPipe
  \/ \E v \in {"standard", "professional"} : UpdateSetting("cameraType", v)
  \/ WsOpen
  \/ \E m \in {MsgHand, MsgNoHands} : WsMessage(m)
  \/ Rerender
  \/ \E dt \in DtFrame : LoopFrame(dt, MaxFrameNow)
  \/ \E i \in 1..Len(inflight), hs \in {<< >>, <<HandMid>>} : OnResults(i, hs)
  \/ \E i \in 1..Len(inflight) : SendResolve(i)
  \/ \E path \in {"", "https://h/one.mp3"} :
       UpdateCircle("a", "audioPath", path)

SpecFrame == InitBridge /\ [][NextFrame]_vars

\* ------------------------------------------------------------------------
\* Specification of the hold frames: a hand in view, out of view or absent,
\* from the bridge on every tick or from the estimator's results
\* ------------------------------------------------------------------------
HoldLists == { << >>, <<HandMid>>, <<HandOff>> }

DtHold == {20}

NextHold ==
  \/ InitMediaPipe
  \/ \E v \in {"standard", "professional"} : UpdateSetting("cameraType", v)
  \/ \E dt \in DtHold, hs \in HoldLists :
       LoopTick(dt, Some([width |-> 640, height |-> 480]), Some(hs),
                MaxHoldNow)
  \/ \E i \in 1..Len(inflight), hs \in HoldLists : OnResults(i, hs)
  \/ \E i \in 1..Len(inflight) : SendResolve(i)

SpecHold == InitBridge /\ [][NextHold]_vars

\* ------------------------------------------------------------------------
\* Specification of the depth gate: one configured zone, fingertips with
\* and without a depth of their own, the bridge's centre depth
\* ------------------------------------------------------------------------
\* fingertip depths in mm: none, below, at and above depthTriggerMm
TipDepths == {0, 1500, 1800, 2000}

DepthTips ==
  {Null, Some(TipOut)} \cup
  { Some([p EXCEPT !.depth = d]) : p \in {TipCentre, TipBand}, d \in TipDepths }

\* a frame of the bridge that carries the centre depth only
MsgDepth(d) ==
  [ok |-> TRUE, hands |-> Null, type |-> "frame", depth |-> Some(d),
   image |-> Null]

DtDepth == {20}

NextDepth ==
  \/ \E v \in {"standard", "professional"} : UpdateSetting("cameraType", v)
  \/ WsOpen
  \/ \E d \in {0, 1500, 2000} : WsMessage(MsgDepth(d))
  \/ Rerender
  \/ \E dt \in DtDepth, t \in DepthTips : Tick(dt, t, MaxDepthNow)

SpecDepth == InitZone /\ [][NextDepth]_vars

\* ------------------------------------------------------------------------
\* Specification of the bridge link: the socket's life, its watchdog and
\* its messages, on relative time (silence and wdPhase)
\* ------------------------------------------------------------------------
\* the watchdog's condition with one more period of patience
WatchdogFiresLate(w) ==
  w.state = "open" /\ w.silence > WD_LIMIT_MS + WD_PERIOD_MS

\* the watchdog's condition: ws.readyState === OPEN and more than 2500 ms
\* since lastFrameTimeRef was written
WatchdogFires(w) == w.state = "open" /\ w.silence > WD_LIMIT_MS

\* one run of the setInterval callback: on the condition, onStats, ws.close()
\* and setRetryKey, whose render runs the connection effect again
Watchdog ==
  /\ ws.state # "none" /\ ws.wdPhase = WD_PERIOD_MS
  /\ IF WatchdogFires(ws)
     THEN /\ ws' = LinkEffect(ws, TRUE)
          /\ wsFeed' = FeedOf(ws)
          /\ depthMm' = ws.depthRef
     ELSE /\ ws' = [ws EXCEPT !.wdPhase = 0]
          /\ UNCHANGED << wsFeed, depthMm >>
  /\ UNCHANGED calc
  /\ lastOp' = "watchdog"
  /\ UNCHANGED << circles, settings, runtimeMap, tip, now, calls, hist,
                  trackVars, cam >>

\* dt ms pass with no event; the interval's callback is not late
LinkClock(dt) ==
  /\ ws.state # "none" => ws.wdPhase + dt <= WD_PERIOD_MS
  /\ ws' = [ws EXCEPT !.silence = Min(@ + dt, SilenceCap),
                      !.wdPhase = IF ws.state = "none" THEN @ ELSE @ + dt]
  /\ ws' # ws
  /\ UNCHANGED calc
  /\ lastOp' = "clock"
  /\ UNCHANGED << circles, settings, runtimeMap, tip, depthMm, now, calls,
                  hist, trackVars, wsFeed, cam >>

LinkMsgs == {MsgHand, MsgGesture, MsgImage, MsgBad}

DtLink == {500}

NextLink ==
  \/ \E v \in {"standard", "professional"} : UpdateSetting("cameraType", v)
  \/ WsOpen
  \/ \E m \in LinkMsgs : WsMessage(m)
  \/ \E i \in 1..Len(ws.images) : ImageLoaded(i)
  \/ WsClosed
  \/ WsError
  \/ StaleClose
  \/ Watchdog
  \/ \E dt \in DtLink : LinkClock(dt)
  \/ Rerender

SpecLink == Init /\ [][NextLink]_vars

\* ------------------------------------------------------------------------
\* Specification of the bridge address: the url of the bridge is edited
\* while the feed is active; at most one replaced socket is left alive
\* ------------------------------------------------------------------------
WsUrls == {"ws://localhost:8765", "ws://bridge:8765"}

\* ws.onopen of a replaced socket that was left connecting
OldOpen ==
  /\ ws.old = "connecting"
  /\ ws' = [ws EXCEPT !.old = "open", !.isConnected = TRUE, !.silence = 0]
  /\ wsFeed' = FeedOf(ws)
  /\ depthMm' = ws.depthRef
  /\ UNCHANGED calc
  /\ lastOp' = "oldopen"
  /\ UNCHANGED << circles, settings, runtimeMap, tip, now, calls, hist,
                  trackVars, cam >>

\* ws.onmessage of a replaced socket that has opened
OldMessage(m) ==
  /\ ws.old = "open"
  /\ m.ok /\ m.image # Null => Len(ws.images) < MaxImages
  /\ ws' = OnMessage(ws, m)
  /\ UNCHANGED calc
  /\ lastOp' = "oldmessage"
  /\ UNCHANGED << circles, settings, runtimeMap, tip, depthMm, now, calls,
                  hist, trackVars, wsFeed, cam >>

\* ws.onclose of a replaced socket, closed by the server or the network
OldClosed ==
  /\ ws.old \in {"connecting", "open"}
  /\ ws' = [ws EXCEPT !.old = "none", !.isConnected = FALSE]
  /\ wsFeed' = FeedOf(ws)
  /\ depthMm' = ws.depthRef
  /\ UNCHANGED calc
  /\ lastOp' = "oldclosed"
  /\ UNCHANGED << circles, settings, runtimeMap, tip, now, calls, hist,
                  trackVars, cam >>

SwitchMsgs == {MsgHand, MsgNoHands, MsgImage}

NextSwitch ==
  \/ \E v \in {"standard", "professional"} : UpdateSetting("cameraType", v)
  \/ \E u \in WsUrls : ws.old = "none" /\ UpdateSetting("wsUrl", u)
  \/ WsOpen
  \/ \E m \in SwitchMsgs : WsMessage(m)
  \/ \E i \in 1..Len(ws.images) : ImageLoaded(i)
  \/ WsClosed
  \/ StaleClose
  \/ OldOpen
  \/ \E m \in SwitchMsgs : OldMessage(m)
  \/ OldClosed

SpecSwitch == Init /\ [][NextSwitch]_vars

\* timers fire: time passes and the interval's callback runs
SpecLinkFair ==
  /\ SpecLink
  /\ WF_vars(Watchdog)
  /\ WF_vars(\E dt \in DtLink : LinkClock(dt))


\* ------------------------------------------------------------------------
\* Specification of the local camera: the initCamera chain of the camera
\* effect, restarted when the camera type changes
\* ------------------------------------------------------------------------
\* the promise of "await new Promise(r => setTimeout(r, delay))" resolves and
\* getUserMedia is called; a retry timer of an earlier run that is due as
\* well was set first and has fired first
CamDelayDone ==
  /\ cam.phase = "delay" /\ cam.left = 0
  /\ \A e \in cam.stale : ~(e.phase = "timer" /\ e.left = 0)
  /\ LET w == cam.waited + (IF cam.retry > 0 THEN CAM_RETRY_DELAY_MS
                            ELSE CAM_FIRST_DELAY_MS)
     IN  cam' = [cam EXCEPT !.phase = "request", !.waited = w,
                            !.waits = Append(@, w)]
  /\ UNCHANGED calc
  /\ lastOp' = "camdelay"
  /\ UNCHANGED << circles, settings, runtimeMap, tip, depthMm, now, calls,
                  hist, trackVars, ws, wsFeed >>

\* getUserMedia resolves and the video plays; setCameraError(null)
CamGranted ==
  /\ cam.phase = "request"
  /\ cam' = [cam EXCEPT !.phase = "playing", !.error = Null,
                        !.stream = TRUE]
  /\ wsFeed' = FeedOf(ws)
  /\ depthMm' = ws.depthRef
  /\ UNCHANGED calc
  /\ lastOp' = "camplay"
  /\ UNCHANGED << circles, settings, runtimeMap, tip, now, calls, hist,
                  trackVars, ws >>

CamBusy(name) == name \in {"NotReadableError", "TrackStartError"}

\* the catch block of initCamera for an error of the given name
CamCatch(c, name) ==
  IF CamBusy(name) /\ c.retry < CAM_MAX_RETRY
  THEN [c EXCEPT !.phase = "timer", !.waited = 0,
                 !.left = CAM_RETRY_TIMER_MS,
                 !.error = Some(<<"Camera busy, retrying", c.retry + 1,
                                  CAM_MAX_RETRY>>)]
  ELSE IF name = "NotAllowedError"
  THEN [c EXCEPT !.phase = "failed", !.error = Some(<<"Permission Denied">>)]
  ELSE [c EXCEPT !.phase = "failed", !.error = Some(<<"Camera Error", name>>)]

\* getUserMedia rejects
CamFailed(name) ==
  /\ cam.phase = "request"
  /\ cam' = CamCatch(cam, name)
  /\ wsFeed' = FeedOf(ws)
  /\ depthMm' = ws.depthRef
  /\ UNCHANGED calc
  /\ lastOp' = "camfail"
  /\ UNCHANGED << circles, settings, runtimeMap, tip, now, calls, hist,
                  trackVars, ws >>

\* the retry timer fires: initCamera(retry + 1), whose first step stops
\* and detaches the stream the video holds
CamRetryTimer ==
  /\ cam.phase = "timer" /\ cam.left = 0
  /\ cam' = [cam EXCEPT !.phase = "delay", !.retry = @ + 1,
                        !.waited = @ + CAM_RETRY_TIMER_MS,
                        !.left = InitDelay(cam.retry + 1),
                        !.stream = FALSE]
  /\ UNCHANGED calc
  /\ lastOp' = "camtimer"
  /\ UNCHANGED << circles, settings, runtimeMap, tip, depthMm, now, calls,
                  hist, trackVars, ws, wsFeed >>

\* the chains that wait for a timer, with the time left on it
CamTimers(c) ==
  (IF c.phase \in {"delay", "timer"} THEN {c.left} ELSE {}) \cup
  { e.left : e \in { f \in c.stale : f.phase \in {"delay", "timer"} } }

\* dt ms pass; no timer is late
CamClock(dt) ==
  /\ CamTimers(cam) # {}
  /\ \A l \in CamTimers(cam) : l >= dt
  /\ cam' = [cam EXCEPT
               !.left = IF cam.phase \in {"delay", "timer"} THEN @ - dt ELSE @,
               !.stale = { IF e.phase \in {"delay", "timer"}
                           THEN [e EXCEPT !.left = @ - dt] ELSE e
                           : e \in cam.stale }]
  /\ UNCHANGED calc
  /\ lastOp' = "camclock"
  /\ UNCHANGED << circles, settings, runtimeMap, tip, depthMm, now, calls,
                  hist, trackVars, ws, wsFeed >>

\* the retry timer of an earlier run fires: initCamera(retry + 1) stops and
\* detaches whatever stream the video holds, then waits
StaleTimer(e) ==
  /\ e \in cam.stale /\ e.phase = "timer" /\ e.left = 0
  /\ cam' = [cam EXCEPT
               !.stream = FALSE,
               !.stale = (@ \ {e}) \cup
                           {[phase |-> "delay", left |-> InitDelay(1)]}]
  /\ UNCHANGED calc
  /\ lastOp' = "staletimer"
  /\ UNCHANGED << circles, settings, runtimeMap, tip, depthMm, now, calls,
                  hist, trackVars, ws, wsFeed >>

\* the wait of an earlier run's retry ends: if (!isMounted) return
StaleDelayDone(e) ==
  /\ e \in cam.stale /\ e.phase = "delay" /\ e.left = 0
  /\ cam' = [cam EXCEPT !.stale = @ \ {e}]
  /\ UNCHANGED calc
  /\ lastOp' = "staledelay"
  /\ UNCHANGED << circles, settings, runtimeMap, tip, depthMm, now, calls,
                  hist, trackVars, ws, wsFeed >>

\* getUserMedia of an earlier run settles: a stream is stopped at once
\* (if (!isMounted) { stream.getTracks().forEach(t => t.stop()); return }),
\* an error is dropped (if (!isMounted) return)
StaleSettled(e) ==
  /\ e \in cam.stale /\ e.phase = "request"
  /\ cam' = [cam EXCEPT !.stale = @ \ {e}]
  /\ UNCHANGED calc
  /\ lastOp' = "stalesettled"
  /\ UNCHANGED << circles, settings, runtimeMap, tip, depthMm, now, calls,
                  hist, trackVars, ws, wsFeed >>

CamErrors ==
  { "NotReadableError", "TrackStartError", "NotAllowedError",
    "OverconstrainedError" }

DtCamera == {250, 500}

NextCamera ==
  \/ \E v \in {"standard", "professional"} : UpdateSetting("cameraType", v)
  \/ \E v \in {"", "cam2"} : UpdateSetting("deviceId", v)
  \/ CamDelayDone
  \/ CamGranted
  \/ \E name \in CamErrors : CamFailed(name)
  \/ CamRetryTimer
  \/ \E dt \in DtCamera : CamClock(dt)
  \/ \E e \in cam.stale : StaleTimer(e)
  \/ \E e \in cam.stale : StaleDelayDone(e)
  \/ \E e \in cam.stale : StaleSettled(e)

SpecCamera == Init /\ [][NextCamera]_vars

\* ------------------------------------------------------------------------
\* Specification of the coordinate transform: a point of the source frame
\* through the tracking transform and through the renderer's feed drawing
\* ------------------------------------------------------------------------
ViewSettings ==
  { [DEFAULT_SETTINGS EXCEPT !.rotationDeg = r, !.mirrorView = m, !.scale = z]
      : r \in {0, 90, 180, 270}, m \in BOOLEAN, z \in {5, 10, 20} }

RawPoints == { [x |-> i, y |-> j] : i \in 0..RawDen, j \in 0..RawDen }

\* the application at rest, with nothing but the inputs of a helper chosen
InitCalc(inputs) ==
  /\ circles = << >>
  /\ settings = DEFAULT_SETTINGS
  /\ runtimeMap = << >>
  /\ tip = Null
  /\ depthMm = 0
  /\ now = 0
  /\ calls = [id \in ZoneIds |-> {}]
  /\ lastOp = "init"
  /\ hist = [id \in ZoneIds |-> NewHist]
  /\ ht = NewTracking
  /\ inflight = << >>
  /\ pick = NoPick
  /\ ws = NewLink
  /\ wsFeed = FeedOf(NewLink)
  /\ cam = NewCamera
  /\ calc \in inputs

appVars ==
  << circles, settings, runtimeMap, tip, depthMm, now, calls, lastOp, hist,
     trackVars, linkVars >>

TransformInputs ==
  { [fn |-> "input", raw |-> raw, stats |-> stats, s |-> s]
      : raw \in RawPoints, stats \in SrcSizes, s \in ViewSettings }

InitTransform == InitCalc(TransformInputs)

\* a landmark goes through transformCoords and the same point of the feed
\* is drawn by drawScene
MapPoint ==
  /\ calc.fn = "input"
  /\ calc' = [fn |-> "transform", raw |-> calc.raw, stats |-> calc.stats,
              s |-> calc.s,
              out |-> transformCoords(calc.raw, calc.stats, calc.s),
              drawn |-> drawPoint(calc.raw, calc.stats, calc.s)]
  /\ UNCHANGED appVars

NextTransform == MapPoint

SpecTransform == InitTransform /\ [][NextTransform]_vars

\* ------------------------------------------------------------------------
\* Specification of angleDiff: two angles in whole degrees
\* ------------------------------------------------------------------------
\* angles about the seams at 180 and 360 degrees, and between them
AngleInputs ==
  {-360, -181, -180, -179, -90, -1, 0, 1, 10, 90, 179, 180, 181, 350, 360}

InitAngle ==
  InitCalc({ [fn |-> "input", a |-> a, b |-> b]
               : a \in AngleInputs, b \in AngleInputs })

\* angleDiff(a, b)
DiffAngles ==
  /\ calc.fn = "input"
  /\ calc' = [fn |-> "angleDiff", a |-> calc.a, b |-> calc.b,
              out |-> angleDiff(calc.a, calc.b)]
  /\ UNCHANGED appVars

NextAngle == DiffAngles

SpecAngle == InitAngle /\ [][NextAngle]_vars

\* ------------------------------------------------------------------------
\* Specification of smoothPoint: a sample that stays where it is, smoothed
\* again and again from a previous point or from none
\* ------------------------------------------------------------------------
\* alpha in percent: 0.01, SMOOTH_ALPHA, the fingertip's 0.5, and 1
SmoothAlphas == {1, SMOOTH_ALPHA, TIP_ALPHA, 100}

SmoothPrevs ==
  { [x |-> x, y |-> y, depth |-> 0] : x \in {-40, 0, 7, 100}, y \in {0, 50} }

SmoothSamples ==
  { [x |-> x, y |-> y, depth |-> 1500] : x \in {0, 7, 100}, y \in {0, 50} }

InitSmooth ==
  InitCalc({ [fn |-> "input", start |-> prev, prev |-> prev, curr |-> curr,
              alpha |-> alpha, n |-> 0]
               : prev \in {Null} \cup { Some(p) : p \in SmoothPrevs },
                 curr \in SmoothSamples, alpha \in SmoothAlphas })

\* prev = smoothPoint(prev, curr, alpha), with before the argument prev
SmoothOnce ==
  /\ calc.fn \in {"input", "smoothPoint"}
  /\ calc.n < MaxSmooth
  /\ calc' = [fn |-> "smoothPoint", start |-> calc.start,
              before |-> calc.prev,
              prev |-> Some(smoothPoint(calc.prev, calc.curr, calc.alpha)),
              curr |-> calc.curr, alpha |-> calc.alpha, n |-> calc.n + 1]
  /\ UNCHANGED appVars

NextSmooth == SmoothOnce

SpecSmooth == InitSmooth /\ [][NextSmooth]_vars

\* ------------------------------------------------------------------------
\* Properties
\* ------------------------------------------------------------------------
Zones == DOMAIN runtimeMap \cap Ids(circles)

\* C1: after every physics tick that mapping edit does not skip, every zone
\* is active exactly when its accumulator has reached 90 degrees and the
\* last clockwise increment is at most 2000 ms old, on the values the tick
\* left; a stale zone is inactive whether the pointer is there or not
C1_ActivationRule ==
  lastOp = "tick" =>
    \A id \in Zones :
      runtimeMap[id].isFilled <=>
        /\ runtimeMap[id].cwAccum >= 2 * ROTATE_TARGET_DEG
        /\ now - runtimeMap[id].lastCWTime <= SPIN_GRACE_MS

\* a zone that was active, pointer present and stationary, found stale
C1_Witness ==
  /\ lastOp = "tick" /\ tip # Null
  /\ \E id \in Zones :
       /\ runtimeMap[id].rotAngle > 0
       /\ runtimeMap[id].cwAccum >= 2 * ROTATE_TARGET_DEG
       /\ now - runtimeMap[id].lastCWTime > SPIN_GRACE_MS
       /\ ~runtimeMap[id].isFilled

\* C2: in a run of consecutive ticks with the pointer inside the circle and
\* clockwise steps of 2..179 degrees, the zone is active once the run has
\* travelled 90 degrees, and, when the run began with an empty accumulator,
\* not before
C2_ClockwiseOrbit ==
  lastOp = "tick" =>
    \A id \in Zones :
      hist[id].cwRun >= 0 =>
        /\ hist[id].cwRun >= ROTATE_TARGET_DEG => runtimeMap[id].isFilled
        /\ hist[id].runBase = 0 /\ hist[id].cwRun < ROTATE_TARGET_DEG
             => ~runtimeMap[id].isFilled

\* the first active tick of a zone, on the second clockwise step of a run
\* from empty that reaches 90 degrees exactly
C2_Witness ==
  /\ lastOp = "tick"
  /\ \E id \in Zones :
       /\ hist[id].cwRun = ROTATE_TARGET_DEG /\ hist[id].runBase = 0
       /\ hist[id].runSteps = 2
       /\ runtimeMap[id].isFilled /\ runtimeMap[id].rotAngle = 1

\* C3: a tick issues play exactly when activation goes false -> true and the
\* edge pause exactly when it goes true -> false, for the audio element and
\* for the animation that are attached, and leaves them playing or paused
\* accordingly; a tick that does not change activation issues neither
C3_EdgeOnce ==
  [][ lastOp' \in {"tick", "skip"} =>
        \A id \in DOMAIN runtimeMap :
          LET rose == ~runtimeMap[id].isFilled /\ runtimeMap'[id].isFilled
              fell == runtimeMap[id].isFilled /\ ~runtimeMap'[id].isFilled
              hasAudio == runtimeMap'[id].audioEl # Null
              hasGif == runtimeMap'[id].gifAnim # Null
          IN  /\ "audio.play" \in calls'[id] <=> rose /\ hasAudio
              /\ "gif.play" \in calls'[id] <=> rose /\ hasGif
              /\ "audio.pause" \in calls'[id] <=> fell /\ hasAudio
              /\ "gif.pause" \in calls'[id] <=> fell /\ hasGif
              /\ rose /\ hasAudio => ~runtimeMap'[id].audioEl[1].paused
              /\ fell /\ hasAudio => runtimeMap'[id].audioEl[1].paused
              /\ rose /\ hasGif => runtimeMap'[id].gifAnim[1].playing
              /\ fell /\ hasGif => ~runtimeMap'[id].gifAnim[1].playing
    ]_vars

\* a tick that paused both the audio and the animation on the falling edge
C3_Witness ==
  /\ lastOp = "tick"
  /\ \E id \in Zones : {"audio.pause", "gif.pause"} \subseteq calls[id]

\* C4: from a fresh runtime, while every sampled pointer step is
\* counter-clockwise, the accumulator is never negative and the zone is
\* never active
C4_CounterClockwise ==
  \A id \in Zones :
    hist[id].ccwOnly =>
      runtimeMap[id].cwAccum >= 0 /\ ~runtimeMap[id].isFilled

\* a zone that sampled a counter-clockwise step while hand-inside
C4_Witness ==
  \E id \in Zones :
    /\ hist[id].ccwOnly /\ hist[id].ccwMoved
    /\ runtimeMap[id].isHandInside /\ runtimeMap[id].lastAngle # Null

\* C5: in standard mode, k consecutive ticks with the pointer beyond
\* radius + margin after a tick with the pointer inside the circle leave the
\* zone inside with grace 10 - k for k = 1..10, and the 11th exits: not
\* inside, not active, accumulator 0, no last angle, grace 0
C5_GraceFrames ==
  \A id \in Zones :
    LET k == hist[id].outTicks
        rt == runtimeMap[id]
    IN  /\ k = 0 => rt.isHandInside /\ rt.graceLeft = LEAVE_GRACE_FRAMES
        /\ k >= 1 /\ k <= LEAVE_GRACE_FRAMES =>
             rt.isHandInside /\ rt.graceLeft = LEAVE_GRACE_FRAMES - k
        /\ k > LEAVE_GRACE_FRAMES =>
             /\ ~rt.isHandInside /\ ~rt.isFilled /\ rt.cwAccum = 0
             /\ rt.lastAngle = Null /\ rt.graceLeft = 0

\* the 11th tick beyond the band
C5_Witness ==
  \E id \in Zones : hist[id].outTicks = LEAVE_GRACE_FRAMES + 1

\* C6 as claimed: a physics tick whose fingertip is within the radius of a
\* zone leaves the zone hand-inside with the grace counter at 10
C6_Original ==
  lastOp = "tick" /\ tip # Null =>
    \A id \in Zones :
      DistWithin(CircleOf(circles, id), tip[1],
                 100 * CircleOf(circles, id).radius) =>
        /\ runtimeMap[id].isHandInside
        /\ runtimeMap[id].graceLeft = LEAVE_GRACE_FRAMES

\* C6: in standard mode, a physics tick whose fingertip is within the radius
\* of a zone leaves the zone hand-inside with the grace counter at 10
C6_InsideStandard ==
  lastOp = "tick" /\ tip # Null /\ settings.cameraType = "standard" =>
    \A id \in Zones :
      DistWithin(CircleOf(circles, id), tip[1],
                 100 * CircleOf(circles, id).radius) =>
        /\ runtimeMap[id].isHandInside
        /\ runtimeMap[id].graceLeft = LEAVE_GRACE_FRAMES

\* a standard-mode tick with the fingertip on the centre of zone "a"
C6_Witness ==
  /\ lastOp = "tick" /\ settings.cameraType = "standard"
  /\ tip = Some(TipCentre) /\ "a" \in Zones
  /\ runtimeMap["a"].graceLeft = LEAVE_GRACE_FRAMES

\* C7: at most one hands.send() call is in flight, and the flag is up while
\* it is
C7_OneInFlight ==
  /\ Len(inflight) <= 1
  /\ Len(inflight) = 1 => ht.isAnalyzing

\* a tick the throttle would have let dispatch, held back by the call in
\* flight
C7_Witness ==
  /\ lastOp = "tick" /\ pick.path = "idle"
  /\ Len(inflight) = 1 /\ ht.handsRef
  /\ 3 * now >= ht.nextAnalyzeDue

\* C8: when a hands.send() call settles, resolved or rejected, the flag is
\* down and, while the component is mounted, the guard of the next dispatch
\* waits for the throttle only; a rejection leaves the tracking snapshot as
\* it was
C8_Release ==
  [][ lastOp' \in {"resolve", "reject"} =>
        /\ ~ht'.isAnalyzing /\ (ht'.isMounted => ht'.handsRef)
        /\ lastOp' = "reject" =>
             /\ tip' = tip
             /\ ht'.prevLms = ht.prevLms
             /\ ht'.holdLeft = ht.holdLeft
    ]_vars

\* a dispatch after a rejected call
C8_Witness ==
  /\ pick.failed /\ pick.path = "dispatch"
  /\ Len(inflight) = 1 /\ ht.isAnalyzing

\* C9: the keys of the runtime map are the ids of the configured zones
C9_RuntimePerZone == DOMAIN runtimeMap = Ids(circles)

\* zone "a" removed right after the tick that activated it, "b" configured
C9_Witness ==
  /\ lastOp = "circles"
  /\ "audio.play" \in calls["a"]
  /\ DOMAIN runtimeMap = {"b"}

ProFrame ==
  /\ now' # now
  /\ lastOp' \in {"tick", "skip"}
  /\ settings.cameraType = "professional"

\* C11: in professional mode, once a tick has set the pointer from a
\* non-empty remote hands array, the next tick that reads an empty remote
\* hands array decays the snapshot as a no-hand result does in local mode:
\* it takes one frame off the hold counter, or it clears the pointer
C11_EmptyRemoteDecays ==
  [][(ProFrame /\ pick.path = "remote" /\ pick.index # 0 /\ tip # Null /\
      wsFeed.hands = Some(<< >>))
       => (tip' = Null \/ ht'.holdLeft < ht.holdLeft)]_vars

\* C12: a professional-mode tick that hands analyzeFrame a non-empty remote
\* hands list dispatches nothing to the on-device estimator: no call is
\* added, the in-flight flag and the throttle stamps stay as they were,
\* whether a candidate is visible or not
C12_RemoteSkipsInference ==
  [][(ProFrame /\ wsFeed.hands # Null /\ Len(wsFeed.hands[1]) > 0)
       => /\ inflight' = inflight
          /\ ht'.isAnalyzing = ht.isAnalyzing
          /\ ht'.lastAnalyze = ht.lastAnalyze
          /\ ht'.nextAnalyzeDue = ht.nextAnalyzeDue]_vars

\* a tick took the remote path with no visible candidate while the
\* estimator was ready, no call was in flight and the throttle had elapsed
C12_Witness ==
  /\ lastOp = "tick"
  /\ pick.path = "remote" /\ pick.index = 0
  /\ ht.handsRef /\ ~ht.isAnalyzing /\ inflight = << >>
  /\ 3 * now >= ht.nextAnalyzeDue

\* a step of the render loop in professional mode that hands analyzeFrame
\* no remote hand, which leaves it to the on-device path
OnDeviceFrame ==
  /\ ProFrame
  /\ wsFeed.hands = Null \/ wsFeed.hands[1] = << >>

\* C13: a tick on the on-device path dispatches only when no call is in
\* flight and, after an earlier dispatch, 1000 / analysisFPS ms have passed
\* since it; a tick that does not dispatch leaves the snapshot, the flag and
\* the throttle stamps as they were; either way the tick's physics step runs
\* in the same tick on the pointer as it stands
C13_Throttle ==
  [][OnDeviceFrame
       => /\ Len(inflight') > Len(inflight)
               => /\ inflight = << >> /\ ~ht.isAnalyzing
                  /\ \/ ht.nextAnalyzeDue = 0
                     \/ 3 * (now' - ht.lastAnalyze) >=
                          3000 \div settings.analysisFPS
          /\ Len(inflight') = Len(inflight)
               => /\ tip' = tip
                  /\ ht'.prevLms = ht.prevLms /\ ht'.holdLeft = ht.holdLeft
                  /\ ht'.isAnalyzing = ht.isAnalyzing
                  /\ ht'.lastAnalyze = ht.lastAnalyze
                  /\ ht'.nextAnalyzeDue = ht.nextAnalyzeDue
          /\ runtimeMap' = updateCirclePhysics(circles, runtimeMap, tip',
                                               settings, depthMm, now')]_vars

\* a tick past the throttle was held back by the call in flight, and its
\* physics step sampled the pointer inside the zone at that tick's time
C13_Witness ==
  /\ lastOp = "tick"
  /\ pick.path = "idle"
  /\ ht.isAnalyzing /\ Len(inflight) = 1
  /\ 3 * now >= ht.nextAnalyzeDue
  /\ "a" \in DOMAIN runtimeMap
  /\ runtimeMap["a"].isHandInside
  /\ tip # Null

\* C14: the remote hands and the depth a professional-mode tick reads are
\* the buffered values of the most recent bridge message: what the loop
\* reads equals what the message handler wrote last
C14_FreshRead ==
  [][ProFrame => (wsFeed.hands = ws.handsRef /\ depthMm = ws.depthRef)]_vars

\* C15: the completion callback of a call that was in flight while a render
\* tick wrote the snapshot from remote hands leaves that snapshot alone: the
\* pointer, the smoothed landmark and the hold counter are what the tick
\* wrote
C15_SingleWriter ==
  [][(lastOp' = "results" /\ inflight' # inflight /\ pick.path = "remote")
       => /\ tip' = tip
          /\ ht'.prevLms = ht.prevLms
          /\ ht'.holdLeft = ht.holdLeft]_vars

\* C16: a watchdog run that finds the socket open and more than 2500 ms
\* without image or keepalive closes it and starts a new connection (a new
\* socket is connecting, the old one's close event is pending); hence an
\* open socket is never silent for more than the limit plus one period
C16_WatchdogReconnects ==
  [][/\ (lastOp' = "watchdog" /\ ws.wdPhase = WD_PERIOD_MS /\
         ws.state = "open" /\ ws.silence > WD_LIMIT_MS)
          => (ws'.state = "connecting" /\ ws'.staleClose /\ ws'.wdPhase = 0)
     /\ ws'.state = "open" => ws'.silence <= WD_LIMIT_MS + WD_PERIOD_MS]_vars

\* the watchdog has just replaced a silent socket
C16_Witness ==
  /\ lastOp = "watchdog"
  /\ ws.state = "connecting" /\ ws.staleClose /\ ws.isConnected
  /\ ws.silence > WD_LIMIT_MS

\* C17: while the feed is active, a lost connection is followed by a
\* reconnect attempt: a closed socket leads to a connecting or open one
\* (or to the feed being switched off)
C17_LossReconnects ==
  (settings.cameraType = "professional" /\ ws.state = "closed")
    ~> (ws.state \in {"connecting", "open"} \/
        settings.cameraType # "professional")

\* C18: a frame that does not parse changes nothing: the buffered hands and
\* depth, the feed canvas and the pending images, the keepalive age and the
\* socket's state are what they were, and so is what the loop reads
C18_BadFrameDiscarded ==
  [][lastOp' = "badmessage"
       => (ws' = ws /\ wsFeed' = wsFeed /\ depthMm' = depthMm)]_vars

\* a bad frame was discarded on an open socket whose buffers hold a hand,
\* a depth and an image, some time after the last keepalive
C18_Witness ==
  /\ lastOp = "badmessage"
  /\ ws.state = "open"
  /\ ws.handsRef = Some(<<HandMid>>) /\ ws.depthRef # 0
  /\ ws.canvas.width = 640
  /\ ws.silence > 0

\* C19: camera acquisition retries a busy device with increasing backoff
\* (each request of a run waits longer than the one before), makes a bounded
\* number of requests, shows a status text while a retry is pending and
\* after a failure, and does not retry a denied permission
C19_Backoff ==
  /\ Len(cam.waits) <= CAM_MAX_RETRY + 1
  /\ \A i \in 2..Len(cam.waits) : cam.waits[i] > cam.waits[i - 1]
  /\ cam.phase \in {"timer", "failed"} => cam.error # Null
  /\ cam.error = Some(<<"Permission Denied">>) /\ lastOp = "camfail"
       => cam.phase = "failed"

\* C20: once the canvas layer is unmounted no zone's media is left
\* playing: every attached audio element is paused and no animation runs
C20_TeardownPausesMedia ==
  ~ht.isMounted =>
    \A id \in DOMAIN runtimeMap :
      /\ runtimeMap[id].audioEl # Null => runtimeMap[id].audioEl[1].paused
      /\ runtimeMap[id].gifAnim # Null => ~runtimeMap[id].gifAnim[1].playing

\* C21: a completion callback that runs after the tracker's cleanup leaves
\* the tracking snapshot alone: the pointer, the smoothed landmark and the
\* hold counter are what they were at teardown
C21_DroppedAfterTeardown ==
  [][(lastOp' = "results" /\ inflight' # inflight /\ ~ht.isMounted)
       => /\ tip' = tip
          /\ ht'.prevLms = ht.prevLms
          /\ ht'.holdLeft = ht.holdLeft]_vars

\* a call in flight at teardown completed with no hand while a pointer was
\* held with frames left on the hold counter, and with a hand while there
\* was none to smooth from
C21_Witness ==
  /\ lastOp = "results" /\ pick.path = "dropped"
  /\ ~ht.isMounted
  /\ \/ pick.hands = << >> /\ tip # Null /\ ht.holdLeft > 0
     \/ pick.hands # << >> /\ tip = Null

\* C22: what is left of a camera session after its cleanup does nothing to
\* the sessions after it: a step of such a chain leaves the video's stream,
\* the current chain and cameraError as they are, and no such chain goes on
\* to request a stream
C22_StaleChainHarmless ==
  [][lastOp' \in {"staletimer", "staledelay", "stalesettled"}
       => /\ cam'.stream = cam.stream
          /\ cam'.phase = cam.phase /\ cam'.retry = cam.retry
          /\ cam'.error = cam.error
          /\ \A e \in cam'.stale \ cam.stale : e.phase # "request"]_vars

\* the retry timer of a session that was torn down fired while the session
\* after it was under way
C22_Witness ==
  /\ lastOp = "staletimer"
  /\ settings.cameraType = "standard"
  /\ cam.phase = "delay"

\* C23: for every rotation, mirror setting and zoom, transformCoords maps a
\* point of the source frame to the canvas position at which drawScene
\* draws that point of the camera feed
C23_SameComposition ==
  calc.fn = "transform" => calc.out = calc.drawn

\* an off-centre point under a quarter turn, the mirror and a zoom of 2
C23_Witness ==
  /\ calc.fn = "transform"
  /\ calc.s.rotationDeg = 90 /\ calc.s.mirrorView /\ calc.s.scale = 20
  /\ calc.raw = [x |-> 3, y |-> 6]
  /\ calc.stats = [width |-> 640, height |-> 480]
  /\ calc.out = calc.drawn

\* C24: the interaction state of a zone's runtime changes only in a tick of
\* the render loop, and there it becomes what the physics step makes of it:
\* the arbiter and the drawing of that tick, the estimator's callback, the
\* socket's message handler and the runtime sync effect leave it as it is
C24_PhysicsOnly ==
  [][\A id \in DOMAIN runtimeMap \cap DOMAIN runtimeMap' :
       /\ lastOp' # "tick"
            => Interaction(runtimeMap'[id]) = Interaction(runtimeMap[id])
       /\ lastOp' = "tick"
            => Interaction(runtimeMap'[id]) =
                 Interaction(updateCirclePhysics(
                               circles, runtimeMap, tip', settings,
                               IF settings.cameraType = "professional"
                               THEN depthMm ELSE 0, now')[id])]_vars

\* the socket's handler has stored a hand while the zone holds the pointer
\* inside with a sampled angle
C24_Witness ==
  /\ lastOp = "message"
  /\ ws.handsRef # Null
  /\ "a" \in DOMAIN runtimeMap
  /\ runtimeMap["a"].isHandInside
  /\ runtimeMap["a"].lastAngle # Null

\* C25: in professional mode, on a tick with a pointer, a zone is
\* hand-inside afterwards only if the pointer is visually contained and the
\* effective depth (the fingertip's depth if it is above 0, the centre
\* depth otherwise) is below depthTriggerMm; with an effective depth of 0
\* the zone is hand-inside exactly if the pointer is visually contained
C25_DepthGate ==
  [][(lastOp' = "tick" /\ settings.cameraType = "professional" /\
      tip' # Null /\ "a" \in DOMAIN runtimeMap /\ "a" \in Ids(circles))
       => LET eff == IF tip'[1].depth > 0 THEN tip'[1].depth ELSE depthMm
              vis == VisualInside(CircleOf(circles, "a"), runtimeMap["a"],
                                  tip'[1])
              inside == runtimeMap'["a"].isHandInside
          IN  /\ inside => (vis /\ eff < depthTriggerMm)
              /\ eff = 0 => (inside <=> vis)
              /\ (vis /\ eff > 0 /\ eff < depthTriggerMm) => inside]_vars

\* a fingertip without a depth of its own at the zone's centre, held off by
\* a centre depth beyond the threshold
C25_Witness ==
  /\ lastOp = "tick" /\ settings.cameraType = "professional"
  /\ tip = Some(TipCentre) /\ depthMm = 2000
  /\ "a" \in DOMAIN runtimeMap /\ ~runtimeMap["a"].isHandInside

\* C26: angleDiff(a, b) is congruent to b - a modulo 360 and lies in the
\* half-open interval (-180, 180]; angleDiff(350, 10) is 20
C26_AngleDiffRange ==
  calc.fn = "angleDiff"
    => /\ (calc.out - (calc.b - calc.a)) % 360 = 0
       /\ calc.out > -180 /\ calc.out <= 180
       /\ (calc.a = 350 /\ calc.b = 10) => calc.out = 20

\* C26 (amended): angleDiff(a, b) is congruent to b - a modulo 360 and lies
\* in the closed interval [-180, 180]; a half turn comes out as 180 when
\* b is above a and as -180 when b is below a; angleDiff(350, 10) is 20
C26_AngleDiffClosed ==
  calc.fn = "angleDiff"
    => /\ (calc.out - (calc.b - calc.a)) % 360 = 0
       /\ calc.out >= -180 /\ calc.out <= 180
       /\ calc.out = 180 => calc.b > calc.a
       /\ calc.out = -180 => calc.b < calc.a
       /\ (calc.a = 350 /\ calc.b = 10) => calc.out = 20

\* the difference from 180 degrees to 0 degrees
C26_Witness ==
  calc.fn = "angleDiff" /\ calc.a = 180 /\ calc.b = 0 /\ calc.out = -180

\* C27: smoothPoint(null, curr, alpha) is curr; for 0 < alpha <= 1 a
\* smoothing step towards a sample never takes either coordinate further
\* from it (the gap shrinks by the factor 1 - alpha, up to rounding to a
\* whole pixel), passes the sample's depth through, and leaves a point that
\* has reached the sample where it is
C27_SmoothConverges ==
  calc.fn = "smoothPoint"
    => LET out == calc.prev[1]
           c == calc.curr
       IN  IF calc.before = Null THEN out = c
           ELSE LET b == calc.before[1]
                IN  /\ Abs(c.x - out.x) <= Abs(c.x - b.x)
                    /\ Abs(c.y - out.y) <= Abs(c.y - b.y)
                    /\ 100 * Abs(c.x - out.x)
                         <= (100 - calc.alpha) * Abs(c.x - b.x) + 99
                    /\ 100 * Abs(c.y - out.y)
                         <= (100 - calc.alpha) * Abs(c.y - b.y) + 99
                    /\ out.depth = c.depth
                    /\ (b.x = c.x /\ b.y = c.y) => out = c

\* a point 100 pixels off has reached the sample after seven steps at 0.5
\* and stays on it in the eighth
C27_Witness ==
  /\ calc.fn = "smoothPoint" /\ calc.n = 8 /\ calc.alpha = TIP_ALPHA
  /\ calc.start = Some([x |-> 100, y |-> 50, depth |-> 0])
  /\ calc.curr = [x |-> 0, y |-> 0, depth |-> 1500]
  /\ calc.before = Some(calc.curr) /\ calc.prev = Some(calc.curr)

\* C28: on a tick whose pointer lies in the band (radius, radius + margin],
\* margin = max(8, 0.18 * radius), about a zone, the zone is hand-inside
\* afterwards only if it was hand-inside before; a zone that was hand-inside
\* is kept so as visually contained (in standard mode with the grace counter
\* at its maximum, in professional mode without depth data as well)
C28_OneSidedBand ==
  [][(lastOp' = "tick" /\ tip' # Null)
       => \A id \in DOMAIN runtimeMap \cap Ids(circles) :
            LET c == CircleOf(circles, id)
                d2 == 10000 * Dist2(c, tip'[1])
                inner == 100 * c.radius
                m100 == IF 100 * MIN_LEAVE_MARGIN_PX >=
                             c.radius * LEAVE_MARGIN_RATIO
                        THEN 100 * MIN_LEAVE_MARGIN_PX
                        ELSE c.radius * LEAVE_MARGIN_RATIO
                inBand == d2 > inner * inner /\
                          d2 <= (inner + m100) * (inner + m100)
                was == runtimeMap[id].isHandInside
                is == runtimeMap'[id].isHandInside
            IN  inBand
                  => /\ is => was
                     /\ (was /\ settings.cameraType = "standard")
                          => is /\ runtimeMap'[id].graceLeft =
                                     LEAVE_GRACE_FRAMES
                     /\ (was /\ settings.cameraType = "professional" /\
                         tip'[1].depth = 0 /\ depthMm = 0) => is]_vars

\* the pointer on the outer edge of the band of a zone in standard mode:
\* the zone, hand-inside before, is kept with its grace counter at 10
C28_Witness ==
  /\ lastOp = "tick" /\ settings.cameraType = "standard"
  /\ tip = Some(TipBand)
  /\ "a" \in DOMAIN runtimeMap
  /\ runtimeMap["a"].isHandInside
  /\ runtimeMap["a"].graceLeft = LEAVE_GRACE_FRAMES

\* C29: on a tick that keeps a zone hand-inside and finds a previous angle,
\* with diff the signed difference to the pointer's angle: a step of at
\* least 2 degrees clockwise adds |diff| to the accumulator and stamps
\* lastCWTime with the tick's time; one of at least 2 degrees
\* counter-clockwise takes |diff| / 2 off the accumulator, not below 0, and
\* leaves lastCWTime; a smaller step leaves both (cwAccum in half degrees)
C29_AccumulatorStep ==
  [][(lastOp' = "tick" /\ tip' # Null)
       => \A id \in DOMAIN runtimeMap \cap Ids(circles) :
            LET c == CircleOf(circles, id)
                rt == runtimeMap[id]
                rtn == runtimeMap'[id]
            IN  (rt.isHandInside /\ rtn.isHandInside /\ rt.lastAngle # Null)
                  => LET diff == angleDiff(rt.lastAngle[1],
                                           calculateAngle(c.x, c.y, tip'[1].x,
                                                          tip'[1].y))
                     IN  /\ (Abs(diff) >= 2 /\ diff > 0)
                              => /\ rtn.cwAccum = rt.cwAccum + 2 * Abs(diff)
                                 /\ rtn.lastCWTime = now'
                         /\ (Abs(diff) >= 2 /\ diff < 0)
                              => /\ rtn.cwAccum =
                                      Max(0, rt.cwAccum - Abs(diff))
                                 /\ rtn.lastCWTime = rt.lastCWTime
                         /\ Abs(diff) < 2
                              => /\ rtn.cwAccum = rt.cwAccum
                                 /\ rtn.lastCWTime = rt.lastCWTime]_vars

\* 89 degrees clockwise and then 89 degrees back: half of the way back is
\* taken off, and the stamp is that of the clockwise step
C29_Witness ==
  /\ lastOp = "tick" /\ tip = Some(TipDeg1)
  /\ "a" \in DOMAIN runtimeMap
  /\ runtimeMap["a"].isHandInside
  /\ runtimeMap["a"].lastAngle = Some(1)
  /\ runtimeMap["a"].cwAccum = 89
  /\ runtimeMap["a"].lastCWTime > 0 /\ runtimeMap["a"].lastCWTime < now

\* C30: on the tick that takes a zone from not hand-inside to hand-inside
\* no previous angle is in use: the accumulator and lastCWTime are left as
\* they were, and the pointer's angle becomes the reference
C30_EntryTick ==
  [][(lastOp' = "tick" /\ tip' # Null)
       => \A id \in DOMAIN runtimeMap \cap Ids(circles) :
            LET c == CircleOf(circles, id)
                rt == runtimeMap[id]
                rtn == runtimeMap'[id]
            IN  (~rt.isHandInside /\ rtn.isHandInside)
                  => /\ rtn.cwAccum = rt.cwAccum
                     /\ rtn.lastCWTime = rt.lastCWTime
                     /\ rtn.lastAngle =
                          Some(calculateAngle(c.x, c.y, tip'[1].x, tip'[1].y))
                     /\ ~rtn.isFilled]_vars

\* a zone entered a quarter turn from the zero angle, nothing accumulated
C30_Witness ==
  /\ lastOp = "tick" /\ tip = Some(TipDeg90)
  /\ "a" \in DOMAIN runtimeMap
  /\ runtimeMap["a"].isHandInside
  /\ runtimeMap["a"].lastAngle = Some(90)
  /\ runtimeMap["a"].cwAccum = 0
  /\ runtimeMap["a"].lastCWTime = 0
  /\ hist["a"].cwRun = 0

\* C31: on a tick without a pointer, a zone whose last clockwise increment
\* is at most 2000 ms old keeps isFilled, isHandInside, cwAccum and
\* lastAngle; one whose increment is older is left inactive with
\* isHandInside false, cwAccum 0 and no lastAngle
C31_NoPointerTick ==
  [][(lastOp' = "tick" /\ tip' = Null)
       => \A id \in DOMAIN runtimeMap \cap Ids(circles) :
            LET rt == runtimeMap[id]
                rtn == runtimeMap'[id]
            IN  IF now' - rt.lastCWTime <= 2000
                THEN /\ rtn.isFilled = rt.isFilled
                     /\ rtn.isHandInside = rt.isHandInside
                     /\ rtn.cwAccum = rt.cwAccum
                     /\ rtn.lastAngle = rt.lastAngle
                ELSE /\ ~rtn.isFilled /\ ~rtn.isHandInside
                     /\ rtn.cwAccum = 0 /\ rtn.lastAngle = Null]_vars

\* an active zone on a tick without a pointer, still within the window
C31_Witness ==
  /\ lastOp = "tick" /\ tip = Null
  /\ "a" \in DOMAIN runtimeMap
  /\ runtimeMap["a"].isFilled /\ runtimeMap["a"].isHandInside
  /\ now > runtimeMap["a"].lastCWTime

\* C32: the hold counter is within 0..6; a snapshot update (the estimator's
\* results, or the bridge's hands in a tick) that accepts a hand sets it to
\* 6; one without a visible hand takes one off while it is positive and
\* leaves fingertip and landmarks as they are, and with the counter at 0
\* clears both
C32_HoldFrames ==
  [][/\ ht'.holdLeft \in 0..6
     /\ (\/ lastOp' = "results" /\ inflight' # inflight /\ pick'.path = "results"
         \/ lastOp' = "tick" /\ pick'.path = "remote")
          => IF pick'.index # 0
             THEN ht'.holdLeft = 6 /\ tip' # Null /\ ht'.prevLms # Null
             ELSE IF ht.holdLeft > 0
             THEN /\ ht'.holdLeft = ht.holdLeft - 1
                  /\ tip # Null /\ tip' = tip /\ ht'.prevLms = ht.prevLms
             ELSE /\ tip' = Null /\ ht'.prevLms = Null
                  /\ ht'.holdLeft = 0]_vars

\* the sixth consecutive tick whose only hand is out of view: fingertip and
\* landmarks are still those of the last detection, the counter is at 0
C32_Witness ==
  /\ lastOp = "tick" /\ pick.path = "remote" /\ pick.index = 0
  /\ pick.hands = <<HandOff>>
  /\ ht.holdLeft = 0 /\ tip # Null /\ ht.prevLms # Null

\* C33: when a zone id disappears from the configuration the sync deletes
\* its runtime and leaves none of its attached media playing (audio element
\* paused, animation not playing); an id that is new gets a runtime with
\* the interaction state of a fresh one, and the tracker is left as it was
C33_RemovedSilent ==
  [][lastOp' = "circles"
       => /\ \A id \in DOMAIN runtimeMap \ Ids(circles') :
               LET d == CleanupRemoved(runtimeMap[id])
               IN  /\ id \notin DOMAIN runtimeMap'
                   /\ d.audioEl # Null => d.audioEl[1].paused
                   /\ d.gifAnim # Null => ~d.gifAnim[1].playing
          /\ \A id \in Ids(circles') \ DOMAIN runtimeMap :
               /\ id \in DOMAIN runtimeMap'
               /\ Interaction(runtimeMap'[id]) = Interaction(NewRuntime)
          /\ ht' = ht]_vars

\* C34: on every tick that leaves the pointer inside the zone the reference
\* angle is the angle of that tick's pointer, also after a step below
\* STILL_EPS_DEG; with a pointer that goes clockwise by steps of 0 or 1
\* degree the accumulator stays 0 and the zone is never active
C34_SlowOrbit ==
  [][(lastOp' = "tick" /\ tip' # Null /\ runtimeMap'["a"].isHandInside)
       => LET rt == runtimeMap["a"]
              rtn == runtimeMap'["a"]
              ang == calculateAngle(circles[1].x, circles[1].y,
                                    tip'[1].x, tip'[1].y)
          IN  /\ rtn.lastAngle = Some(ang)
              /\ rt.lastAngle # Null
                   => angleDiff(rt.lastAngle[1], ang) \in {0, 1}
              /\ rtn.cwAccum = 0
              /\ ~rtn.isFilled]_vars

\* the pointer entered at -46 degrees and has reached 47 degrees
C34_Witness ==
  /\ lastOp = "tick" /\ tip = Some(CreepTip(Len(CreepOffsets)))
  /\ runtimeMap["a"].isHandInside
  /\ runtimeMap["a"].lastAngle = Some(47)
  /\ runtimeMap["a"].cwAccum = 0
  /\ ~runtimeMap["a"].isFilled

\* C35: in standard mode, on a tick with the pointer beyond the band of a
\* zone that the grace counter still holds, the counter goes down by one
\* and the angle rule is the one of an inside tick: the reference follows
\* the pointer, a clockwise step of at least STILL_EPS_DEG is added, a
\* counter-clockwise one is taken off at half weight, and the zone is
\* active when the accumulator has reached the target and is fresh
C35_GraceOrbit ==
  [][(/\ lastOp' = "tick" /\ settings.cameraType = "standard"
      /\ tip' # Null /\ BeyondBand(circles[1], tip'[1])
      /\ runtimeMap["a"].isHandInside /\ runtimeMap["a"].graceLeft > 0
      /\ runtimeMap["a"].lastAngle # Null)
       => LET rt == runtimeMap["a"]
              rtn == runtimeMap'["a"]
              ang == calculateAngle(circles[1].x, circles[1].y,
                                    tip'[1].x, tip'[1].y)
              diff == angleDiff(rt.lastAngle[1], ang)
          IN  /\ rtn.isHandInside
              /\ rtn.graceLeft = rt.graceLeft - 1
              /\ rtn.lastAngle = Some(ang)
              /\ rtn.cwAccum =
                   IF diff >= STILL_EPS_DEG THEN rt.cwAccum + 2 * diff
                   ELSE IF diff <= 0 - STILL_EPS_DEG
                   THEN Max(0, rt.cwAccum + diff)
                   ELSE rt.cwAccum
              /\ rtn.isFilled =
                   (/\ rtn.cwAccum >= 2 * ROTATE_TARGET_DEG
                    /\ now' - rtn.lastCWTime <= SPIN_GRACE_MS)]_vars

\* the zone has become active on a tick with the pointer beyond its band
C35_Witness ==
  /\ lastOp = "tick" /\ tip = Some(TipOut90)
  /\ BeyondBand(circles[1], tip[1])
  /\ runtimeMap["a"].isFilled /\ runtimeMap["a"].isHandInside
  /\ runtimeMap["a"].graceLeft = LEAVE_GRACE_FRAMES - 3
  /\ runtimeMap["a"].cwAccum = 2 * ROTATE_TARGET_DEG
  /\ "audio.play" \in calls["a"]

\* C36: a pass of the render loop made while isMappingEdit is on leaves the
\* runtime of every zone as it was (interaction state, audio element and
\* animation) and issues no media call, whatever the pointer and the time
C36_EditFreezes ==
  [][(lastOp' = "skip" /\ now' # now)
       => /\ settings.isMappingEdit
          /\ runtimeMap' = runtimeMap
          /\ \A id \in ZoneIds : calls'[id] = {}]_vars

\* an active zone whose audio plays is still active, with no pointer and a
\* clockwise stamp older than SPIN_GRACE_MS, after a pass in edit mode
C36_Witness ==
  /\ lastOp = "skip" /\ tip = Null
  /\ runtimeMap["a"].isFilled /\ runtimeMap["a"].isHandInside
  /\ runtimeMap["a"].audioEl # Null /\ ~runtimeMap["a"].audioEl[1].paused
  /\ now - runtimeMap["a"].lastCWTime > SPIN_GRACE_MS

\* C37: after a physics tick the audio element attached to a zone plays
\* exactly when the zone is active, also when the sync effect has attached
\* or replaced the element while the zone was active
C37_AudioFollowsActive ==
  lastOp = "tick"
    => \A id \in DOMAIN runtimeMap :
         runtimeMap[id].audioEl # Null
           => (~runtimeMap[id].audioEl[1].paused <=> runtimeMap[id].isFilled)

\* C38: after a physics tick every runtime has cwAccum >= 0, graceLeft
\* within 0..LEAVE_GRACE_FRAMES and wasFilled = isFilled, and a runtime
\* that has an accumulator above 0, a reference angle or isFilled has
\* isHandInside
C38_RuntimeInvariant ==
  lastOp = "tick"
    => \A id \in DOMAIN runtimeMap :
         LET rt == runtimeMap[id]
         IN  /\ rt.cwAccum >= 0
             /\ rt.graceLeft \in 0..LEAVE_GRACE_FRAMES
             /\ rt.wasFilled = rt.isFilled
             /\ rt.cwAccum > 0 => rt.isHandInside
             /\ rt.lastAngle # Null => rt.isHandInside
             /\ rt.isFilled => rt.isHandInside

\* an active zone after a tick without a pointer: the accumulator, the
\* reference angle and the grace counter are those of the last inside tick
C38_Witness ==
  /\ lastOp = "tick" /\ tip = Null
  /\ runtimeMap["a"].isFilled /\ runtimeMap["a"].wasFilled
  /\ runtimeMap["a"].isHandInside
  /\ runtimeMap["a"].cwAccum >= 2 * ROTATE_TARGET_DEG
  /\ runtimeMap["a"].lastAngle # Null
  /\ runtimeMap["a"].graceLeft = LEAVE_GRACE_FRAMES

\* C40: isConnected is true for as long as the current socket is open; the
\* close event of a socket that has been replaced does not clear it
C40_ConnectedWhileOpen == ws.state = "open" => ws.isConnected

\* C39: every socket that the connection effect has replaced was closed by
\* it, so none is left connecting or open beside the current one
C39_OneSocket == ws.old = "none"

====
